---------------------------- MODULE Spec2Model ----------------------------
(***************************************************************************)
(* A model of WLAIO.py: the wordlist generator (brute force enumeration,   *)
(* leet speak, rule application), the rule tab's apply_rules handler, the  *)
(* combiner tab (size estimate and the pairwise generation thread), the    *)
(* brute-force tab's two handlers and their threads, the main loop that    *)
(* runs the callbacks the threads post, and remove_duplicates.             *)
(*                                                                         *)
(* A word is a sequence of one-character strings, so that concatenation,   *)
(* case conversion and character replacement are computed, not assumed.    *)
(***************************************************************************)
EXTENDS Integers, Sequences, FiniteSets, TLC

VARIABLES
    \* ---- WordlistGenerator.generate_brute_force(character_sets, length, cb)
    character_sets,     \* argument: sequence of character-set names
    length,             \* argument: word length
    bf_pc,              \* "call" | "loop" | "returned" | "raised"
    bf_i,               \* the enumerate() index of the next combo
    bf_wordlist,        \* local wordlist (the return value once returned)
    bf_callbacks,       \* indices i at which progress_callback was invoked
    \* ---- WordlistGenerator.apply_leet_speak / apply_rules_to_word
    word,               \* argument: the word
    rules,              \* argument: the set of rule names whose flag is true
    engine_returned,    \* which of the two calls below have returned
    leet_result,        \* return value of apply_leet_speak(word)
    rules_result,       \* return value of apply_rules_to_word(word, rules)
    \* ---- WordlistManagerGUI.apply_rules (rule tab)
    rules_entry,        \* the comma-separated tokens typed in the entry
    rules_vars,         \* the rule checkboxes that are ticked
    text_area_rules,    \* the lines shown in the rule tab's text area
    rules_status,       \* "" | "info" (messagebox) | "generated"
    \* ---- WordlistManagerGUI combiner tab
    combiner_wordlist1, \* self.combiner_wordlist1
    combiner_wordlist2, \* self.combiner_wordlist2
    combiner_vars,      \* the combiner checkboxes that are ticked
    combiner_size_label,\* the number shown in "Estimated combinations: N"
    options,            \* generate_combined_wordlist's snapshot of the flags
    gt_pc,              \* generation_thread: "idle" | "total" | "product" |
                        \*   "loop" | "finally" | "except" | "done" |
                        \*   "rejected"
    total_pairs,        \* generation_thread local
    gt_pairs,           \* the pairs itertools.product still has to yield
    processed,          \* generation_thread local
    unique_combinations,\* generation_thread local OrderedDict (its key order)
    final_list,         \* generation_thread local: list(unique_combinations)
    generate_combiner_btn, \* state of the "Combine Wordlists" button
    combiner_progress,  \* value of the combiner progress bar
    status,             \* the status bar's message
    after_queue,        \* callbacks posted with window.after(0, ...), oldest first
    \* ---- WordlistManagerGUI brute-force tab
    length_entry,       \* the text typed in the length entry
    brute_force_vars,   \* the character-set checkboxes that are ticked
    generate_brute_force_button, \* state of the "Generate" button
    save_brute_force_button,     \* state of the "Save to File" button
    brute_force_progress,        \* value of the brute-force progress bar
    text_area_brute_force,       \* the lines shown in the brute-force text area
    gen_pc,             \* generate_thread: "idle" | "running" | "finally" |
                        \*   "except" | "done"
    gen_e,              \* generate_thread's variable e: <<>> while unbound
    save_pc,            \* save_thread: "idle" | "open" | "loop" | "finally" |
                        \*   "except" | "done"
    save_charset,       \* save_brute_force_to_file local charset
    save_length,        \* save_brute_force_to_file local length
    save_total,         \* save_brute_force_to_file local total
    save_i,             \* save_thread: the enumerate() index of the next combo
    save_progress,      \* save_thread local progress
    save_e,             \* save_thread's variable e: <<>> while unbound
    file,               \* the lines of the file chosen in the save dialog
    \* ---- the combiner tab's output and the dialogs
    gt_e,               \* generation_thread's variable e: <<>> while unbound
    text_area_combiner, \* the lines shown in the combiner tab's text area
    messagebox,         \* the last message box shown: <<>> before the first
    callback_exception, \* the last exception raised inside a posted callback
    \* ---- the load/save tab
    text_area_load_save,\* the lines of the load/save tab's text area
    word_count_label,   \* the number shown in "Words: N"
    fm_wordlist,        \* save_wordlist's argument wordlist
    fm_linesep,         \* os.linesep of the platform
    fm_file,            \* the characters of the file save_wordlist wrote
    fm_pc,              \* "idle" | "saved" | "loaded" | "raised"
    fm_loaded           \* the list load_wordlist returned

bfVars == <<character_sets, length, bf_pc, bf_i, bf_wordlist, bf_callbacks>>
engineVars == <<word, rules, engine_returned, leet_result, rules_result>>
rulesTabVars == <<rules_entry, rules_vars, text_area_rules, rules_status>>
combinerInputVars == <<combiner_wordlist1, combiner_wordlist2, combiner_vars,
                       combiner_size_label>>
threadVars == <<options, gt_pc, total_pairs, gt_pairs, processed,
                unique_combinations, final_list, generate_combiner_btn,
                combiner_progress, status, after_queue>>
guiVars == <<length_entry, brute_force_vars, generate_brute_force_button,
             save_brute_force_button, brute_force_progress,
             text_area_brute_force, gen_pc, gen_e, save_pc, save_charset,
             save_length, save_total, save_i, save_progress, save_e, file,
             gt_e, text_area_combiner, messagebox, callback_exception>>
fileManagerVars == <<fm_wordlist, fm_linesep, fm_file, fm_pc, fm_loaded>>
loadSaveVars == <<text_area_load_save, word_count_label, fileManagerVars>>
vars == <<bfVars, engineVars, rulesTabVars, combinerInputVars, threadVars,
          guiVars, loadSaveVars>>

-----------------------------------------------------------------------------
(* Bounds of the model.                                                    *)

\* The largest word length passed to generate_brute_force.
MaxLength == 6
\* The number of loop iterations of generate_brute_force that are followed;
\* an enumeration with more elements than this is followed this far only.
MaxSteps == 1300
\* The longest word passed to apply_leet_speak and apply_rules_to_word.
MaxWordLen == 2
\* The longest text typed in the rule tab's entry.
MaxEntryLen == 4
\* The longest word list loaded in the combiner tab.
MaxListLen == 2
\* The longest word list loaded when only the estimate is followed.
MaxLoadLen == 3
\* The number of lines of the file that save_thread is followed for.
MaxSaveSteps == 12
\* The most lines typed in the load/save tab's text area.
MaxLines == 3
\* The most words of a list passed to save_wordlist.
MaxSavedWords == 2
\* The longest word passed to apply_leet_speak when it is followed alone.
MaxLeetLen == 3
\* The longest word passed to apply_rules_to_word when it is followed alone.
MaxShapeLen == 2

-----------------------------------------------------------------------------
(* Sequence helpers.                                                       *)

RECURSIVE Flatten(_)
Flatten(ss) == IF ss = <<>> THEN <<>> ELSE Head(ss) \o Flatten(Tail(ss))

Range(s) == {s[k] : k \in 1..Len(s)}

Contains(s, x) == \E k \in 1..Len(s) : s[k] = x

\* Python integers are unbounded, TLC's are 32 bits wide: a product that
\* does not fit is represented by the largest value that does.
IntCeiling == 2147483646 + 1

SatMul(a, b) == IF b # 0 /\ a > IntCeiling \div b THEN IntCeiling ELSE a * b

\* b ** e
RECURSIVE Pow(_, _)
Pow(b, e) == IF e = 0 THEN 1 ELSE SatMul(Pow(b, e - 1), b)

-----------------------------------------------------------------------------
(* class WordlistGenerator: the tables.                                    *)

UpperLetters == <<"A","B","C","D","E","F","G","H","I","J","K","L","M",
                  "N","O","P","Q","R","S","T","U","V","W","X","Y","Z">>
LowerLetters == <<"a","b","c","d","e","f","g","h","i","j","k","l","m",
                  "n","o","p","q","r","s","t","u","v","w","x","y","z">>
Digits == <<"0","1","2","3","4","5","6","7","8","9">>
SpecialCharacters == <<"!","@","#","$","%","^","&","*","(",")","_","+",
                       "-","=","{","}",":","<",">","?",",",".","/">>

CharacterSetNames == <<"uppercase", "lowercase", "numbers", "special_characters">>

CHARACTER_SETS ==
    [n \in Range(CharacterSetNames) |->
        CASE n = "uppercase" -> UpperLetters
          [] n = "lowercase" -> LowerLetters
          [] n = "numbers" -> Digits
          [] n = "special_characters" -> SpecialCharacters]

LEET_MAP_Chained == << <<"e","3">>, <<"a","4">>, <<"i","1">>, <<"o","0">>,
                       <<"s","5">>, <<"t","7">>, <<"l","i">> >>
LEET_MAP == << <<"e","3">>, <<"a","4">>, <<"i","1">>, <<"o","0">>,
               <<"s","5">>, <<"t","7">>, <<"l","1">> >>
DEFAULT_NUMBERS == << <<"1">>, <<"2">>, <<"3">>, <<"1","2","3">>,
                      <<"2","0","2","3">>, <<"2","0","2","4">> >>
DEFAULT_SPECIAL_CHARS == << <<"!">>, <<"@">>, <<"#">>, <<"$">>, <<"!","@","#">> >>

\* The in-memory limit of generate_brute_force.
BruteForceLimit == 1000000
\* generate_brute_force calls the progress callback when i % 1000 == 0.
BruteForceProgressEvery == 1000
\* generation_thread reports progress when processed % 100 == 0.
CombinerProgressEvery == 100

-----------------------------------------------------------------------------
(* WordlistGenerator.generate_brute_force                                   *)

\* ''.join(CHARACTER_SETS[cs] for cs in character_sets if cs in CHARACTER_SETS)
Charset(cs) ==
    Flatten([k \in 1..Len(cs) |->
                IF cs[k] \in DOMAIN CHARACTER_SETS THEN CHARACTER_SETS[cs[k]]
                                                   ELSE <<>>])

\* The position (from 0) in the alphabet of the character that the i-th tuple
\* (from 0) of itertools.product(charset, repeat=len) has at position k.
ProductDigitLeftFastest(n, len, i, k) == (i \div Pow(n, k - 1)) % n
ProductDigit(n, len, i, k) == (i \div Pow(n, len - k)) % n

\* ''.join(combo) for the i-th combo of itertools.product(charset, repeat=len)
ProductItem(charset, len, i) ==
    [k \in 1..len |-> charset[ProductDigit(Len(charset), len, i, k) + 1]]

\* len(charset) ** length.  For a negative length Python gives the float
\* 1 / n ** -len: it is below both limits it is compared with and no loop pass
\* ever reads it, because itertools.product raises first; 0 stands for it.
Power(n, len) == IF len < 0 THEN 0 ELSE Pow(n, len)

BfTotal == Power(Len(Charset(character_sets)), length)

\* total > 1000000
OverLimitInclusive(total) == total >= BruteForceLimit
OverLimit(total) == total > BruteForceLimit

\* Lines 33-42: build the charset, return [] when it is empty, raise
\* ValueError when the total exceeds the limit, otherwise enter the loop;
\* itertools.product raises ValueError when repeat is negative.
BfEnterBody ==
    /\ bf_pc = "call"
    /\ bf_pc' = IF Charset(character_sets) = <<>> THEN "returned"
                ELSE IF OverLimit(BfTotal) THEN "raised"
                ELSE IF length < 0 THEN "raised"
                ELSE "loop"
    /\ UNCHANGED <<character_sets, length, bf_i, bf_wordlist, bf_callbacks>>

\* str(e) of the exception generate_brute_force raised
BfError ==
    IF length < 0 THEN <<"repeat argument cannot be negative">>
    ELSE <<"Too many combinations (", BfTotal,
           "). Consider using file output directly.">>

BfEnter ==
    /\ BfEnterBody
    /\ UNCHANGED <<engineVars, rulesTabVars, combinerInputVars, threadVars, guiVars,
                   loadSaveVars>>

\* Lines 42-45: one iteration of the loop over enumerate(product(...)).
BfIterateBody ==
    /\ bf_pc = "loop"
    /\ bf_i < BfTotal
    /\ bf_i < MaxSteps
    /\ bf_callbacks' = IF bf_i % BruteForceProgressEvery = 0
                       THEN Append(bf_callbacks, bf_i) ELSE bf_callbacks
    /\ bf_wordlist' = Append(bf_wordlist,
                             ProductItem(Charset(character_sets), length, bf_i))
    /\ bf_i' = bf_i + 1
    /\ UNCHANGED <<character_sets, length, bf_pc>>

BfIterate ==
    /\ BfIterateBody
    /\ UNCHANGED <<engineVars, rulesTabVars, combinerInputVars, threadVars, guiVars,
                   loadSaveVars>>

\* Line 47: the product is exhausted, return wordlist.
BfReturnBody ==
    /\ bf_pc = "loop"
    /\ bf_i = BfTotal
    /\ bf_pc' = "returned"
    /\ UNCHANGED <<character_sets, length, bf_i, bf_wordlist, bf_callbacks>>

BfReturn ==
    /\ BfReturnBody
    /\ UNCHANGED <<engineVars, rulesTabVars, combinerInputVars, threadVars, guiVars,
                   loadSaveVars>>

\* The arguments followed: every ordering of every selection of the four
\* character sets, two selections with a name that is no character set, and
\* every length up to MaxLength.
Selections ==
    {s \in UNION {[1..k -> Range(CharacterSetNames)] : k \in 0..4} :
        \A i, j \in DOMAIN s : i # j => s[i] # s[j]}
    \cup {<<"digits">>, <<"digits", "numbers">>}

InitBruteForceArgs ==
    /\ character_sets \in Selections
    /\ length \in 0..MaxLength
    /\ bf_pc = "call"
    /\ bf_i = 0
    /\ bf_wordlist = <<>>
    /\ bf_callbacks = <<>>

BruteForceUnused ==
    /\ character_sets = <<>>
    /\ length = 0
    /\ bf_pc = "call"
    /\ bf_i = 0
    /\ bf_wordlist = <<>>
    /\ bf_callbacks = <<>>

-----------------------------------------------------------------------------
(* str methods, on words of ASCII characters and the letter dotless i.      *)

LetterIndex(letters, c) == CHOOSE k \in 1..Len(letters) : letters[k] = c

\* The character U+0131, LATIN SMALL LETTER DOTLESS I: a lower-case letter
\* whose upper case is "I", while the lower case of "I" is "i"
DotlessI == "U+0131"

\* One character of str.lower() / str.upper()
LowerChar(c) == IF Contains(UpperLetters, c)
                THEN LowerLetters[LetterIndex(UpperLetters, c)] ELSE c
UpperChar(c) == IF c = DotlessI THEN "I"
                ELSE IF Contains(LowerLetters, c)
                THEN UpperLetters[LetterIndex(LowerLetters, c)] ELSE c

\* w.lower(), w.upper()
Lower(w) == [k \in 1..Len(w) |-> LowerChar(w[k])]
Upper(w) == [k \in 1..Len(w) |-> UpperChar(w[k])]

\* w.capitalize(): the first character upper-cased, the others lower-cased
Capitalize(w) == [k \in 1..Len(w) |-> IF k = 1 THEN UpperChar(w[k])
                                                ELSE LowerChar(w[k])]

\* w.replace(char, replacement), both one character long
ReplaceFirst(w, char, replacement) ==
    [k \in 1..Len(w) |-> IF w[k] = char /\ (\A j \in 1..(k - 1) : w[j] # char)
                         THEN replacement ELSE w[k]]
Replace(w, char, replacement) ==
    [k \in 1..Len(w) |-> IF w[k] = char THEN replacement ELSE w[k]]

\* list(OrderedDict.fromkeys(items)): a key seen again keeps its first place
\* (the items are taken in order, the first half before the second)
RECURSIVE FromKeysInto(_, _)
FromKeysInto(keys, items) ==
    IF items = <<>> THEN keys
    ELSE IF Len(items) = 1
         THEN (IF Contains(keys, items[1]) THEN keys ELSE Append(keys, items[1]))
    ELSE LET half == FromKeysInto(keys, SubSeq(items, 1, Len(items) \div 2))
         IN IF Len(half) >= 0
            THEN FromKeysInto(half, SubSeq(items, Len(items) \div 2 + 1, Len(items)))
            ELSE half

OrderedDictFromKeys(items) == FromKeysInto(<<>>, items)

-----------------------------------------------------------------------------
(* WordlistGenerator.apply_leet_speak                                       *)

\* The loop over LEET_MAP.items(), from pair k onwards
RECURSIVE LeetFrom(_, _)
LeetFrom(leet_word, k) ==
    IF k > Len(LEET_MAP) THEN leet_word
    ELSE LeetFrom(Replace(leet_word, LEET_MAP[k][1], LEET_MAP[k][2]), k + 1)

ApplyLeetSpeakCaseKept(w) == LeetFrom(w, 1)
ApplyLeetSpeak(w) == LeetFrom(Lower(w), 1)

-----------------------------------------------------------------------------
(* WordlistGenerator.apply_rules_to_word                                    *)

RuleNames == {"leet_speak", "case_variations", "append_numbers",
              "prepend_numbers", "append_special_characters",
              "prepend_special_characters"}

\* [var + x for x in table], [x + var for x in table]
Appended(var, table) == [j \in 1..Len(table) |-> var \o table[j]]
Prepended(var, table) == [j \in 1..Len(table) |-> table[j] \o var]

\* Lines 60-66: the variations list
VariationsCaseFirst(w, rs) ==
    <<w>>
    \o (IF "case_variations" \in rs THEN <<Upper(w), Lower(w), Capitalize(w)>>
                                     ELSE <<>>)
    \o (IF "leet_speak" \in rs THEN <<ApplyLeetSpeak(w)>> ELSE <<>>)
Variations(w, rs) ==
    <<w>>
    \o (IF "leet_speak" \in rs THEN <<ApplyLeetSpeak(w)>> ELSE <<>>)
    \o (IF "case_variations" \in rs THEN <<Upper(w), Lower(w), Capitalize(w)>>
                                     ELSE <<>>)

\* Lines 71-83: what one pass of the loop body appends to final_variations
AffixBlockStacked(var, rs) ==
    LET appended ==
          <<var>>
          \o (IF "append_numbers" \in rs THEN Appended(var, DEFAULT_NUMBERS) ELSE <<>>)
          \o (IF "append_special_characters" \in rs
                  THEN Appended(var, DEFAULT_SPECIAL_CHARS) ELSE <<>>)
    IN appended
       \o (IF "prepend_numbers" \in rs
              THEN Flatten([k \in 1..Len(appended) |->
                               Prepended(appended[k], DEFAULT_NUMBERS)])
              ELSE <<>>)
       \o (IF "prepend_special_characters" \in rs
              THEN Flatten([k \in 1..Len(appended) |->
                               Prepended(appended[k], DEFAULT_SPECIAL_CHARS)])
              ELSE <<>>)
AffixBlock(var, rs) ==
    <<var>>
    \o (IF "append_numbers" \in rs THEN Appended(var, DEFAULT_NUMBERS) ELSE <<>>)
    \o (IF "prepend_numbers" \in rs THEN Prepended(var, DEFAULT_NUMBERS) ELSE <<>>)
    \o (IF "append_special_characters" \in rs
            THEN Appended(var, DEFAULT_SPECIAL_CHARS) ELSE <<>>)
    \o (IF "prepend_special_characters" \in rs
            THEN Prepended(var, DEFAULT_SPECIAL_CHARS) ELSE <<>>)

\* Lines 69-83: final_variations after the loop over the variations
FinalVariations(variations, rs) ==
    Flatten([k \in 1..Len(variations) |-> AffixBlock(variations[k], rs)])

ApplyRulesToWord(w, rs) ==
    OrderedDictFromKeys(FinalVariations(Variations(w, rs), rs))

\* A call of apply_leet_speak(word)
CallApplyLeetSpeak ==
    /\ "apply_leet_speak" \notin engine_returned
    /\ leet_result' = ApplyLeetSpeak(word)
    /\ engine_returned' = engine_returned \cup {"apply_leet_speak"}
    /\ UNCHANGED <<word, rules, rules_result>>
    /\ UNCHANGED <<bfVars, rulesTabVars, combinerInputVars, threadVars, guiVars,
                   loadSaveVars>>

\* A call of apply_rules_to_word(word, rules)
CallApplyRulesToWord ==
    /\ "apply_rules_to_word" \notin engine_returned
    /\ rules_result' = ApplyRulesToWord(word, rules)
    /\ engine_returned' = engine_returned \cup {"apply_rules_to_word"}
    /\ UNCHANGED <<word, rules, leet_result>>
    /\ UNCHANGED <<bfVars, rulesTabVars, combinerInputVars, threadVars, guiVars,
                   loadSaveVars>>

\* The characters of the words followed: the seven letters of LEET_MAP, two
\* of them in upper case too, a letter and a digit outside it, and "!".
EngineChars == {"e", "a", "i", "o", "s", "t", "l", "E", "S", "h", "1", "!"}

WordsUpTo(chars, n) == UNION {[1..k -> chars] : k \in 0..n}

EngineWords == WordsUpTo(EngineChars, MaxWordLen)
               \cup {<<"p","a","s","s">>, <<"h","i">>, <<"H","i">>,
                     <<DotlessI>>, <<"k", DotlessI>>}

InitEngineArgs ==
    /\ word \in EngineWords
    /\ rules \in SUBSET RuleNames
    /\ engine_returned = {}
    /\ leet_result = <<>>
    /\ rules_result = <<>>

\* The words passed to apply_leet_speak when it is followed alone: every
\* character that LEET_MAP reads or writes, letters it leaves alone, and the
\* words of a letter, its replacement and another letter with that
\* replacement, and words in mixed case
LeetChars == {"l", "i", "1", "e"}
LeetWords ==
    WordsUpTo(LeetChars, MaxLeetLen)
    \cup {<<LEET_MAP[k][1]>> : k \in 1..Len(LEET_MAP)}
    \cup {<<LEET_MAP[k][2]>> : k \in 1..Len(LEET_MAP)}
    \cup {<<UpperChar(LEET_MAP[k][1])>> : k \in 1..Len(LEET_MAP)}
    \cup {<<"h">>, <<DotlessI>>, <<"p","a","s","s">>, <<"L","e","E","t">>,
          <<"H","i">>, <<"h","I">>}

InitLeetArgs ==
    /\ word \in LeetWords
    /\ rules = {}
    /\ engine_returned = {}
    /\ leet_result = <<>>
    /\ rules_result = <<>>

\* The words passed to apply_rules_to_word when it is followed alone: over a
\* letter LEET_MAP replaces, an upper-case letter, a digit that is a number
\* affix and a replacement of LEET_MAP, and a special-character affix
ShapeChars == {"e", "E", "1", "!"}
ShapeWords == WordsUpTo(ShapeChars, MaxShapeLen)
              \cup {<<"h", "i">>, <<DotlessI>>, <<"1", "2", "3">>}

InitShapeArgs ==
    /\ word \in ShapeWords
    /\ rules \in SUBSET RuleNames
    /\ engine_returned = {}
    /\ leet_result = <<>>
    /\ rules_result = <<>>

EngineUnused ==
    /\ word = <<>>
    /\ rules = {}
    /\ engine_returned = {}
    /\ leet_result = <<>>
    /\ rules_result = <<>>

-----------------------------------------------------------------------------
(* WordlistManagerGUI.apply_rules                                           *)

\* text.split(sep): the pieces between the separators, empty ones included
RECURSIVE SplitInto(_, _, _, _)
SplitInto(done, piece, text, sep) ==
    IF text = <<>> THEN Append(done, piece)
    ELSE IF Head(text) = sep THEN SplitInto(Append(done, piece), <<>>, Tail(text), sep)
    ELSE SplitInto(done, Append(piece, Head(text)), Tail(text), sep)

Split(text, sep) == SplitInto(<<>>, <<>>, text, sep)

\* The characters str.strip() removes
Whitespace == {" ", "\t", "\n", "\r", "\f"}

\* w.strip(): leading and trailing whitespace removed
RECURSIVE LStrip(_)
LStrip(w) == IF w # <<>> /\ Head(w) \in Whitespace THEN LStrip(Tail(w)) ELSE w

RECURSIVE RStrip(_)
RStrip(w) == IF w # <<>> /\ w[Len(w)] \in Whitespace
             THEN RStrip(SubSeq(w, 1, Len(w) - 1)) ELSE w

Strip(w) == RStrip(LStrip(w))

\* [f(x) for x in items if keep(x)] with f = strip and keep = non-empty strip
RECURSIVE StrippedNonEmpty(_)
StrippedNonEmpty(pieces) ==
    IF pieces = <<>> THEN <<>>
    ELSE (IF Strip(Head(pieces)) # <<>> THEN <<Strip(Head(pieces))>> ELSE <<>>)
         \o StrippedNonEmpty(Tail(pieces))

\* Line 1290
EntryWords(input_text) == StrippedNonEmpty(Split(input_text, ","))

\* Lines 1297-1299: result_words after the loop over the words
ResultWords(words, rs) ==
    Flatten([k \in 1..Len(words) |-> ApplyRulesToWord(words[k], rs)])

\* The "Apply Rules" button
ApplyRules ==
    /\ IF EntryWords(rules_entry) = <<>>
       THEN /\ rules_status' = "info"
            /\ UNCHANGED text_area_rules
       ELSE /\ text_area_rules' = ResultWords(EntryWords(rules_entry), rules_vars)
            /\ rules_status' = "generated"
    /\ UNCHANGED <<rules_entry, rules_vars>>
    /\ UNCHANGED <<bfVars, engineVars, combinerInputVars, threadVars, guiVars,
                   loadSaveVars>>

\* The texts typed in the entry: up to MaxEntryLen characters.
EntryChars == {"a", "1", ",", " "}

InitRulesTab ==
    /\ rules_entry \in WordsUpTo(EntryChars, MaxEntryLen)
    /\ rules_vars \in SUBSET RuleNames
    /\ text_area_rules = <<>>
    /\ rules_status = ""

RulesTabUnused ==
    /\ rules_entry = <<>>
    /\ rules_vars = {}
    /\ text_area_rules = <<>>
    /\ rules_status = ""

-----------------------------------------------------------------------------
(* WordlistManagerGUI: the combiner tab's size estimate                     *)

\* Lines 959-973
CombinerMultiplierNoPlusOne(flags) ==
    (IF "case_variations" \in flags THEN 3 ELSE 1)
    * (IF "leet_speak" \in flags THEN 2 ELSE 1)
    * (IF "append_numbers" \in flags THEN Len(DEFAULT_NUMBERS) ELSE 1)
    * (IF "prepend_numbers" \in flags THEN Len(DEFAULT_NUMBERS) ELSE 1)
    * (IF "append_special_characters" \in flags
          THEN Len(DEFAULT_SPECIAL_CHARS) ELSE 1)
    * (IF "prepend_special_characters" \in flags
          THEN Len(DEFAULT_SPECIAL_CHARS) ELSE 1)
CombinerMultiplier(flags) ==
    (IF "case_variations" \in flags THEN 3 ELSE 1)
    * (IF "leet_speak" \in flags THEN 2 ELSE 1)
    * (IF "append_numbers" \in flags THEN Len(DEFAULT_NUMBERS) + 1 ELSE 1)
    * (IF "prepend_numbers" \in flags THEN Len(DEFAULT_NUMBERS) + 1 ELSE 1)
    * (IF "append_special_characters" \in flags
          THEN Len(DEFAULT_SPECIAL_CHARS) + 1 ELSE 1)
    * (IF "prepend_special_characters" \in flags
          THEN Len(DEFAULT_SPECIAL_CHARS) + 1 ELSE 1)

\* update_combiner_estimate: the number it writes on combiner_size_label
CombinerEstimate(len1, len2, flags) ==
    IF len1 = 0 \/ len2 = 0 THEN 0
    ELSE (len1 * len2) * CombinerMultiplier(flags)

\* The words of the lists loaded when only the estimate is followed.
EstimateWords == {<<"a">>}

\* load_combiner_wordlist(list_num) once the file chosen has been read as
\* `words`: it stores the list and updates the estimate.
LoadCombinerWordlist(list_num, words) ==
    /\ IF list_num = 1
       THEN /\ combiner_wordlist1' = words
            /\ UNCHANGED combiner_wordlist2
       ELSE /\ combiner_wordlist2' = words
            /\ UNCHANGED combiner_wordlist1
    /\ combiner_size_label' =
          CombinerEstimate(Len(combiner_wordlist1'), Len(combiner_wordlist2'),
                           combiner_vars)
    /\ UNCHANGED combiner_vars
    /\ UNCHANGED <<bfVars, engineVars, rulesTabVars, threadVars, guiVars,
                   loadSaveVars>>

\* A click on one of the combiner tab's check boxes
ToggleCombinerVar(name) ==
    /\ combiner_vars' = IF name \in combiner_vars THEN combiner_vars \ {name}
                                                  ELSE combiner_vars \cup {name}
    /\ UNCHANGED <<combiner_wordlist1, combiner_wordlist2, combiner_size_label>>
    /\ UNCHANGED <<bfVars, engineVars, rulesTabVars, threadVars, guiVars,
                   loadSaveVars>>

-----------------------------------------------------------------------------
(* WordlistManagerGUI.generate_combined_wordlist and its generation_thread  *)

\* list(itertools.product(list1, list2)): list1's word outermost
ProductPairsInnerFirst(list1, list2) ==
    [k \in 1..(Len(list1) * Len(list2)) |->
        <<list1[((k - 1) % Len(list1)) + 1], list2[((k - 1) \div Len(list1)) + 1]>>]
ProductPairs(list1, list2) ==
    [k \in 1..(Len(list1) * Len(list2)) |->
        <<list1[((k - 1) \div Len(list2)) + 1], list2[((k - 1) % Len(list2)) + 1]>>]

\* Lines 1012-1015: the loop over variations.copy(), from its k-th element
RECURSIVE LeetExtend(_, _, _)
LeetExtend(variations, copy, k) ==
    IF k > Len(copy) THEN variations
    ELSE LeetExtend(IF Contains(variations, ApplyLeetSpeak(copy[k]))
                    THEN variations
                    ELSE Append(variations, ApplyLeetSpeak(copy[k])),
                    copy, k + 1)

\* Lines 1000-1015: the variations of one base
CombinerVariationsLeetOfBase(base, opts) ==
    LET cased == <<base>> \o (IF "case_variations" \in opts
                              THEN <<Upper(base), Lower(base), Capitalize(base)>>
                              ELSE <<>>)
    IN IF "leet_speak" \in opts /\ ~Contains(cased, ApplyLeetSpeak(base))
       THEN Append(cased, ApplyLeetSpeak(base)) ELSE cased
CombinerVariations(base, opts) ==
    LET cased == <<base>> \o (IF "case_variations" \in opts
                              THEN <<Upper(base), Lower(base), Capitalize(base)>>
                              ELSE <<>>)
    IN IF "leet_speak" \in opts THEN LeetExtend(cased, cased, 1) ELSE cased

\* Lines 999-1044: final_variants of the pair (w1, w2)
PairVariants(w1, w2, opts) ==
    FinalVariations(CombinerVariations(w1 \o w2, opts), opts)

\* Lines 1047-1048: unique_combinations[variant] = None for every variant.
\* Assigning to a key the OrderedDict already holds leaves it in its place.
RECURSIVE AddMovingToEnd(_, _)
AddMovingToEnd(keys, items) ==
    IF items = <<>> THEN keys
    ELSE IF Len(items) = 1
         THEN Append(SelectSeq(keys, LAMBDA x : x # items[1]), items[1])
    ELSE LET half == AddMovingToEnd(keys, SubSeq(items, 1, Len(items) \div 2))
         IN IF Len(half) >= 0
            THEN AddMovingToEnd(half, SubSeq(items, Len(items) \div 2 + 1, Len(items)))
            ELSE half
AddAll(keys, items) == FromKeysInto(keys, items)

\* The "Combine Wordlists" button: lines 980-990 and the start of the thread
GenerateCombinedWordlist ==
    /\ generate_combiner_btn = "normal"
    /\ gt_pc \in {"idle", "rejected"}
    /\ IF combiner_wordlist1 = <<>> \/ combiner_wordlist2 = <<>>
       THEN /\ gt_pc' = "rejected"
            /\ messagebox' = <<"showerror", "Error", "Load both wordlists first">>
            /\ UNCHANGED <<options, generate_combiner_btn, combiner_progress, status>>
       ELSE /\ options' = combiner_vars
            /\ generate_combiner_btn' = "disabled"
            /\ combiner_progress' = 0
            /\ status' = <<"Combining wordlists...">>
            /\ gt_pc' = "total"
            /\ UNCHANGED messagebox
    /\ UNCHANGED <<total_pairs, gt_pairs, processed, unique_combinations,
                   final_list, after_queue>>
    /\ UNCHANGED <<length_entry, brute_force_vars, generate_brute_force_button,
                   save_brute_force_button, brute_force_progress,
                   text_area_brute_force, gen_pc, gen_e, save_pc, save_charset,
                   save_length, save_total, save_i, save_progress, save_e, file,
                   gt_e, text_area_combiner, callback_exception>>
    /\ UNCHANGED <<bfVars, engineVars, rulesTabVars, combinerInputVars,
                   loadSaveVars>>

\* generation_thread, lines 994-996
GtTotal ==
    /\ gt_pc = "total"
    /\ unique_combinations' = <<>>
    /\ total_pairs' = Len(combiner_wordlist1) * Len(combiner_wordlist2)
    /\ processed' = 0
    /\ gt_pc' = "product"
    /\ UNCHANGED <<options, gt_pairs, final_list, generate_combiner_btn,
                   combiner_progress, status, after_queue>>
    /\ UNCHANGED <<bfVars, engineVars, rulesTabVars, combinerInputVars, guiVars,
                   loadSaveVars>>

\* generation_thread, line 998: itertools.product reads both lists
GtProduct ==
    /\ gt_pc = "product"
    /\ gt_pairs' = ProductPairs(combiner_wordlist1, combiner_wordlist2)
    /\ gt_pc' = "loop"
    /\ UNCHANGED <<options, total_pairs, processed, unique_combinations,
                   final_list, generate_combiner_btn, combiner_progress, status,
                   after_queue>>
    /\ UNCHANGED <<bfVars, engineVars, rulesTabVars, combinerInputVars, guiVars,
                   loadSaveVars>>

\* generation_thread, lines 998-1057: one pass of the loop over the pairs
GtPair ==
    /\ gt_pc = "loop"
    /\ gt_pairs # <<>>
    /\ unique_combinations' =
          AddAll(unique_combinations,
                 PairVariants(Head(gt_pairs)[1], Head(gt_pairs)[2], options))
    /\ gt_pairs' = Tail(gt_pairs)
    /\ processed' = processed + 1
    /\ after_queue' =
          IF processed' % CombinerProgressEvery = 0 \/ processed' = total_pairs
          THEN after_queue \o << <<"combiner_progress.config">>,
                                 <<"update_status">> >>
          ELSE after_queue
    /\ UNCHANGED <<options, gt_pc, total_pairs, final_list,
                   generate_combiner_btn, combiner_progress, status>>
    /\ UNCHANGED <<bfVars, engineVars, rulesTabVars, combinerInputVars, guiVars,
                   loadSaveVars>>

\* generation_thread, lines 1060-1063: the loop is over and the result is
\* posted
GtFinish ==
    /\ gt_pc = "loop"
    /\ gt_pairs = <<>>
    /\ final_list' = unique_combinations
    /\ after_queue' = Append(after_queue, <<"display_combined_results">>)
    /\ gt_pc' = "finally"
    /\ UNCHANGED <<options, total_pairs, gt_pairs, processed, unique_combinations,
                   generate_combiner_btn, combiner_progress, status>>
    /\ UNCHANGED <<bfVars, engineVars, rulesTabVars, combinerInputVars, guiVars,
                   loadSaveVars>>

\* The words of the lists loaded in the combiner tab.
CombinerWords1 == {<<"a">>, <<"b">>}
CombinerWords2 == {<<"x">>, <<"y">>}
\* Further lists loaded: words that differ in case only, a word whose
\* concatenation with a lower-case word is in mixed case, and the word
\* dotless i.
MoreLists1 == {<< <<"b">>, <<"B">> >>, << <<"a">>, <<"B">> >>, << <<DotlessI>> >>}
MoreLists2 == {<< <<"B">> >>, << <<"x">>, <<"X">> >>}

ListsUpTo(words, n) == UNION {[1..k -> words] : k \in 0..n}

InitThread ==
    /\ options = {}
    /\ gt_pc = "idle"
    /\ total_pairs = 0
    /\ gt_pairs = <<>>
    /\ processed = 0
    /\ unique_combinations = <<>>
    /\ final_list = <<>>
    /\ generate_combiner_btn = "normal"
    /\ combiner_progress = 0
    /\ status = <<"Ready">>
    /\ after_queue = <<>>

\* Both lists loaded before any box was ticked, then any boxes ticked.
InitCombinerLoaded ==
    /\ combiner_wordlist1 \in ListsUpTo(CombinerWords1, MaxListLen) \cup MoreLists1
    /\ combiner_wordlist2 \in ListsUpTo(CombinerWords2, MaxListLen) \cup MoreLists2
    /\ combiner_vars \in SUBSET RuleNames
    /\ combiner_size_label =
          CombinerEstimate(Len(combiner_wordlist1), Len(combiner_wordlist2), {})

\* __init__: lines 295-296, 504-524
InitCombinerTab ==
    /\ combiner_wordlist1 = <<>>
    /\ combiner_wordlist2 = <<>>
    /\ combiner_vars = {}
    /\ combiner_size_label = 0

-----------------------------------------------------------------------------
(* The brute-force tab: generate_brute_force, save_brute_force_to_file and  *)
(* their threads.                                                          *)

\* int(text) for a text of digits with an optional sign, blanks around it
IntBody(text) ==
    IF Strip(text) # <<>> /\ Head(Strip(text)) \in {"+", "-"}
    THEN Tail(Strip(text)) ELSE Strip(text)

\* int(text) does not raise ValueError
IntParses(text) ==
    /\ IntBody(text) # <<>>
    /\ \A k \in 1..Len(IntBody(text)) : Contains(Digits, IntBody(text)[k])

RECURSIVE DigitsValue(_)
DigitsValue(ds) ==
    IF ds = <<>> THEN 0
    ELSE DigitsValue(SubSeq(ds, 1, Len(ds) - 1)) * 10
         + (CHOOSE d \in 0..9 : Digits[d + 1] = ds[Len(ds)])

IntOf(text) ==
    IF Head(Strip(text)) = "-" THEN 0 - DigitsValue(IntBody(text))
    ELSE DigitsValue(IntBody(text))

\* [key for key, var in self.brute_force_vars.items() if var.get() == 1]
TickedCharsets(ticked) == SelectSeq(CharacterSetNames, LAMBDA n : n \in ticked)

\* (i / total) * 100, its whole part
Percent(i, total) == (i * 100) \div total

\* save_brute_force_to_file asks before it writes more words than this.
SaveConfirmLimit == 100000000
\* save_thread reports progress when i % 10000 == 0.
SaveProgressEvery == 10000

\* The "Generate" button: lines 1199-1208 reject, lines 1211-1228 start the
\* thread, which calls generate_brute_force(charsets, length, ...).
GenerateBruteForce ==
    /\ generate_brute_force_button = "normal"
    /\ IF ~IntParses(length_entry)
       THEN /\ messagebox' = <<"showerror", "Error", "Invalid length">>
            /\ UNCHANGED <<bfVars, generate_brute_force_button,
                           brute_force_progress, gen_pc>>
       ELSE IF TickedCharsets(brute_force_vars) = <<>>
       THEN /\ messagebox' = <<"showerror", "Error",
                               "Select at least one character set">>
            /\ UNCHANGED <<bfVars, generate_brute_force_button,
                           brute_force_progress, gen_pc>>
       ELSE /\ generate_brute_force_button' = "disabled"
            /\ brute_force_progress' = 0
            /\ character_sets' = TickedCharsets(brute_force_vars)
            /\ length' = IntOf(length_entry)
            /\ bf_pc' = "call"
            /\ bf_i' = 0
            /\ bf_wordlist' = <<>>
            /\ bf_callbacks' = <<>>
            /\ gen_pc' = "running"
            /\ UNCHANGED messagebox
    /\ UNCHANGED <<length_entry, brute_force_vars, save_brute_force_button,
                   text_area_brute_force, gen_e, save_pc, save_charset,
                   save_length, save_total, save_i, save_progress, save_e,
                   file, gt_e, text_area_combiner, callback_exception>>
    /\ UNCHANGED <<engineVars, rulesTabVars, combinerInputVars, threadVars,
                   loadSaveVars>>

\* What a step of generate_thread leaves alone, the queue apart
GenFrame ==
    /\ UNCHANGED <<length_entry, brute_force_vars, generate_brute_force_button,
                   save_brute_force_button,
                   text_area_brute_force, save_pc, save_charset, save_length,
                   save_total, save_i, save_progress, save_e, file, gt_e,
                   text_area_combiner, messagebox, callback_exception>>
    /\ UNCHANGED <<options, gt_pc, total_pairs, gt_pairs, processed,
                   unique_combinations, final_list, generate_combiner_btn,
                   combiner_progress, status>>
    /\ UNCHANGED <<engineVars, rulesTabVars, combinerInputVars,
                   loadSaveVars>>

\* Line 1220, the progress_callback passed to generate_brute_force: it posts
\* a lambda that has bound p
ProgressCallbackDirect(p) ==
    /\ brute_force_progress' = p
    /\ UNCHANGED after_queue
ProgressCallback(p) ==
    /\ after_queue' = Append(after_queue, <<"brute_force_progress.config", p>>)
    /\ UNCHANGED brute_force_progress

\* generate_thread, line 1217: generate_brute_force up to its loop
GenEnter ==
    /\ gen_pc = "running"
    /\ BfEnterBody
    /\ UNCHANGED <<gen_pc, gen_e, after_queue, brute_force_progress>>
    /\ GenFrame

\* generate_thread, lines 1217-1221: one pass of generate_brute_force's loop
GenIterate ==
    /\ gen_pc = "running"
    /\ BfIterateBody
    /\ IF bf_callbacks' # bf_callbacks
       THEN ProgressCallback(Percent(bf_i, BfTotal))
       ELSE UNCHANGED <<after_queue, brute_force_progress>>
    /\ UNCHANGED <<gen_pc, gen_e>>
    /\ GenFrame

\* generate_thread, line 1217: generate_brute_force returns
GenReturn ==
    /\ gen_pc = "running"
    /\ BfReturnBody
    /\ UNCHANGED <<gen_pc, gen_e, after_queue, brute_force_progress>>
    /\ GenFrame

\* generate_thread, line 1222: the result is posted
GenResult ==
    /\ gen_pc = "running"
    /\ bf_pc = "returned"
    /\ after_queue' = Append(after_queue, <<"display_brute_force_results">>)
    /\ gen_pc' = "finally"
    /\ UNCHANGED <<bfVars, gen_e, brute_force_progress>>
    /\ GenFrame

\* generate_thread, lines 1223-1224: e is bound and the lambda that reads e
\* is posted
GenExcept ==
    /\ gen_pc = "running"
    /\ bf_pc = "raised"
    /\ gen_e' = BfError
    /\ after_queue' = Append(after_queue, <<"generate_thread.showerror">>)
    /\ gen_pc' = "except"
    /\ UNCHANGED <<bfVars, brute_force_progress>>
    /\ GenFrame

\* generate_thread, lines 1224-1226: the except clause ends, which unbinds e,
\* and the finally clause posts the button's reset
GenFinally ==
    /\ gen_pc \in {"finally", "except"}
    /\ gen_e' = <<>>
    /\ after_queue' = Append(after_queue, <<"generate_brute_force_button.config">>)
    /\ gen_pc' = "done"
    /\ UNCHANGED <<bfVars, brute_force_progress>>
    /\ GenFrame

\* The "Save to File" button: lines 1244-1253 reject, lines 1255-1264 ask,
\* lines 1267-1285 start the thread.  confirm is the answer to askyesno and
\* filename the answer of the save dialog ("" when it is cancelled).
SaveBruteForceToFile(confirm, filename) ==
    /\ save_brute_force_button = "normal"
    /\ IF ~IntParses(length_entry)
       THEN /\ messagebox' = <<"showerror", "Error", "Invalid length">>
            /\ UNCHANGED <<save_brute_force_button, brute_force_progress,
                           save_pc, save_charset, save_length, save_total>>
       ELSE IF TickedCharsets(brute_force_vars) = <<>>
       THEN /\ messagebox' = <<"showerror", "Error",
                               "Select at least one character set">>
            /\ UNCHANGED <<save_brute_force_button, brute_force_progress,
                           save_pc, save_charset, save_length, save_total>>
       ELSE LET charset == Charset(TickedCharsets(brute_force_vars))
                total == Power(Len(charset), IntOf(length_entry))
            IN IF (total > SaveConfirmLimit /\ ~confirm) \/ filename = ""
               THEN UNCHANGED <<messagebox, save_brute_force_button,
                                brute_force_progress, save_pc, save_charset,
                                save_length, save_total>>
               ELSE /\ save_brute_force_button' = "disabled"
                    /\ brute_force_progress' = 0
                    /\ save_charset' = charset
                    /\ save_length' = IntOf(length_entry)
                    /\ save_total' = total
                    /\ save_pc' = "open"
                    /\ UNCHANGED messagebox
    /\ UNCHANGED <<length_entry, brute_force_vars, generate_brute_force_button,
                   text_area_brute_force, gen_pc, gen_e, save_i, save_progress,
                   save_e, file, gt_e, text_area_combiner, callback_exception>>
    /\ UNCHANGED <<bfVars, engineVars, rulesTabVars, combinerInputVars,
                   threadVars,
                   loadSaveVars>>

\* What a step of save_thread leaves alone, its locals, the file and the
\* queue apart
SaveFrame ==
    /\ UNCHANGED <<length_entry, brute_force_vars, generate_brute_force_button,
                   save_brute_force_button, brute_force_progress,
                   text_area_brute_force, gen_pc, gen_e, save_charset,
                   save_length, save_total, gt_e, text_area_combiner,
                   messagebox, callback_exception>>
    /\ UNCHANGED <<options, gt_pc, total_pairs, gt_pairs, processed,
                   unique_combinations, final_list, generate_combiner_btn,
                   combiner_progress, status>>
    /\ UNCHANGED <<bfVars, engineVars, rulesTabVars, combinerInputVars,
                   loadSaveVars>>

\* save_thread, lines 1280-1281: e is bound and the lambda that reads e is
\* posted
SaveExceptSilent(e) ==
    /\ save_e' = e
    /\ UNCHANGED after_queue
    /\ save_pc' = "except"
SaveExcept(e) ==
    /\ save_e' = e
    /\ after_queue' = Append(after_queue, <<"save_thread.showerror">>)
    /\ save_pc' = "except"

\* save_thread, line 1272: open(filename, 'w') truncates the file
SaveOpenAppending ==
    /\ save_pc = "open"
    /\ file' = file
    /\ save_i' = 0
    /\ save_pc' = "loop"
    /\ UNCHANGED <<save_progress, save_e, after_queue>>
    /\ SaveFrame
SaveOpen ==
    /\ save_pc = "open"
    /\ file' = <<>>
    /\ save_i' = 0
    /\ save_pc' = "loop"
    /\ UNCHANGED <<save_progress, save_e, after_queue>>
    /\ SaveFrame

\* save_thread, line 1272: open raises OSError
SaveOpenFails ==
    /\ save_pc = "open"
    /\ SaveExcept(<<"OSError">>)
    /\ UNCHANGED <<save_i, save_progress, file>>
    /\ SaveFrame

\* save_thread, line 1274: itertools.product raises ValueError when repeat is
\* negative; the with statement closes the file
SaveProductRaises ==
    /\ save_pc = "loop"
    /\ save_length < 0
    /\ SaveExcept(<<"repeat argument cannot be negative">>)
    /\ UNCHANGED <<save_i, save_progress, file>>
    /\ SaveFrame

\* save_thread, lines 1274-1278: one pass of the loop.  The lambda posted
\* reads progress when it runs.
SaveWriteEveryLine ==
    /\ save_pc = "loop"
    /\ save_length >= 0
    /\ save_i < save_total
    /\ save_i < MaxSaveSteps
    /\ file' = Append(file, ProductItem(save_charset, save_length, save_i))
    /\ save_progress' = Percent(save_i, save_total)
    /\ after_queue' =
          Append(after_queue, <<"save_thread.brute_force_progress.config">>)
    /\ save_i' = save_i + 1
    /\ UNCHANGED <<save_pc, save_e>>
    /\ SaveFrame
SaveWrite ==
    /\ save_pc = "loop"
    /\ save_length >= 0
    /\ save_i < save_total
    /\ save_i < MaxSaveSteps
    /\ file' = Append(file, ProductItem(save_charset, save_length, save_i))
    /\ IF save_i % SaveProgressEvery = 0
       THEN /\ save_progress' = Percent(save_i, save_total)
            /\ after_queue' =
                  Append(after_queue, <<"save_thread.brute_force_progress.config">>)
       ELSE UNCHANGED <<save_progress, after_queue>>
    /\ save_i' = save_i + 1
    /\ UNCHANGED <<save_pc, save_e>>
    /\ SaveFrame

\* save_thread, line 1275: f.write raises OSError; the with statement closes
\* the file with the lines written so far
SaveWriteFails ==
    /\ save_pc = "loop"
    /\ save_length >= 0
    /\ save_i < save_total
    /\ save_i < MaxSaveSteps
    /\ SaveExcept(<<"OSError">>)
    /\ UNCHANGED <<save_i, save_progress, file>>
    /\ SaveFrame

\* save_thread, lines 1272-1279: the product is exhausted, the with statement
\* closes the file and the completion is posted
SaveClose ==
    /\ save_pc = "loop"
    /\ save_length >= 0
    /\ save_i = save_total
    /\ after_queue' = Append(after_queue, <<"save_thread.update_status">>)
    /\ save_pc' = "finally"
    /\ UNCHANGED <<save_i, save_progress, save_e, file>>
    /\ SaveFrame

\* save_thread, line 1272: the flush of the closing file raises OSError
SaveCloseFails ==
    /\ save_pc = "loop"
    /\ save_length >= 0
    /\ save_i = save_total
    /\ SaveExcept(<<"OSError">>)
    /\ UNCHANGED <<save_i, save_progress, file>>
    /\ SaveFrame

\* save_thread, lines 1281-1283: the except clause ends, which unbinds e, and
\* the finally clause posts the button's reset
SaveFinally ==
    /\ save_pc \in {"finally", "except"}
    /\ save_e' = <<>>
    /\ after_queue' = Append(after_queue, <<"save_brute_force_button.config">>)
    /\ save_pc' = "done"
    /\ UNCHANGED <<save_i, save_progress, file>>
    /\ SaveFrame

-----------------------------------------------------------------------------
(* generation_thread's except and finally clauses.                         *)

\* What a step of generation_thread leaves alone, gt_pc, gt_e and the queue
\* apart
GtFrame ==
    /\ UNCHANGED <<options, total_pairs, gt_pairs, processed,
                   unique_combinations, final_list, generate_combiner_btn,
                   combiner_progress, status>>
    /\ UNCHANGED <<length_entry, brute_force_vars, generate_brute_force_button,
                   save_brute_force_button, brute_force_progress,
                   text_area_brute_force, gen_pc, gen_e, save_pc, save_charset,
                   save_length, save_total, save_i, save_progress, save_e, file,
                   text_area_combiner, messagebox, callback_exception>>
    /\ UNCHANGED <<bfVars, engineVars, rulesTabVars, combinerInputVars,
                   loadSaveVars>>

\* generation_thread, lines 998-1067: a pass of the loop raises (MemoryError
\* as the dictionary grows); e is bound and the lambda that reads e is posted
GtExcept ==
    /\ gt_pc = "loop"
    /\ gt_pairs # <<>>
    /\ gt_e' = <<"MemoryError">>
    /\ after_queue' = Append(after_queue, <<"generation_thread.showerror">>)
    /\ gt_pc' = "except"
    /\ GtFrame

\* generation_thread, lines 1067-1069: the except clause ends, which unbinds
\* e, and the finally clause posts reset_combiner_ui
GtFinally ==
    /\ gt_pc \in {"finally", "except"}
    /\ gt_e' = <<>>
    /\ after_queue' = Append(after_queue, <<"reset_combiner_ui">>)
    /\ gt_pc' = "done"
    /\ GtFrame

-----------------------------------------------------------------------------
(* The Tk main loop: the callbacks posted with window.after(0, ...) run in  *)
(* the order they were posted, one at a time.                              *)

\* generation_thread's local progress, as the lambda of line 1055 reads it
\* when it runs: line 1053 assigned it at the last multiple of 100 and at
\* the last pair.
GtProgress ==
    IF processed = total_pairs THEN Percent(processed, total_pairs)
    ELSE Percent(processed - (processed % CombinerProgressEvery), total_pairs)

\* display_combined_results shows this many words at most.
CombinerDisplayLimit == 5000

\* The widgets and dialogs, which the main loop's thread owns
foregroundVars ==
    <<generate_brute_force_button, save_brute_force_button,
      brute_force_progress, text_area_brute_force, generate_combiner_btn,
      combiner_progress, text_area_combiner, status, messagebox,
      callback_exception>>

\* showerror("...", str(e)) run from the queue: e is read when the lambda
\* runs, and reading it raises NameError once the except clause has ended
ShowError(title, e) ==
    IF e = <<>>
    THEN /\ callback_exception' = <<"NameError", "e">>
         /\ UNCHANGED messagebox
    ELSE /\ messagebox' = <<"showerror", title>> \o e
         /\ UNCHANGED callback_exception

ProcessAfter ==
    /\ after_queue # <<>>
    /\ after_queue' = Tail(after_queue)
    /\ LET cb == Head(after_queue)
       IN CASE cb[1] = "brute_force_progress.config" ->
                 /\ brute_force_progress' = cb[2]
                 /\ UNCHANGED <<generate_brute_force_button,
                       save_brute_force_button, text_area_brute_force,
                       generate_combiner_btn, combiner_progress,
                       text_area_combiner, status, messagebox,
                       callback_exception>>
            [] cb[1] = "save_thread.brute_force_progress.config" ->
                 /\ brute_force_progress' = save_progress
                 /\ UNCHANGED <<generate_brute_force_button,
                       save_brute_force_button, text_area_brute_force,
                       generate_combiner_btn, combiner_progress,
                       text_area_combiner, status, messagebox,
                       callback_exception>>
            \* lines 1233-1240
            [] cb[1] = "display_brute_force_results" ->
                 /\ text_area_brute_force' = bf_wordlist
                 /\ status' = IF bf_wordlist # <<>>
                              THEN <<"Generated", Len(bf_wordlist),
                                     "brute-force words">>
                              ELSE <<"No words generated">>
                 /\ UNCHANGED <<generate_brute_force_button,
                       save_brute_force_button, brute_force_progress,
                       generate_combiner_btn, combiner_progress,
                       text_area_combiner, messagebox, callback_exception>>
            [] cb[1] = "generate_thread.showerror" ->
                 /\ ShowError("Error", gen_e)
                 /\ UNCHANGED <<generate_brute_force_button,
                       save_brute_force_button, brute_force_progress,
                       text_area_brute_force, generate_combiner_btn,
                       combiner_progress, text_area_combiner, status>>
            [] cb[1] = "generate_brute_force_button.config" ->
                 /\ generate_brute_force_button' = "normal"
                 /\ UNCHANGED <<save_brute_force_button, brute_force_progress,
                       text_area_brute_force, generate_combiner_btn,
                       combiner_progress, text_area_combiner, status,
                       messagebox, callback_exception>>
            [] cb[1] = "save_thread.update_status" ->
                 /\ status' = <<"Saved", save_total, "words">>
                 /\ UNCHANGED <<generate_brute_force_button,
                       save_brute_force_button, brute_force_progress,
                       text_area_brute_force, generate_combiner_btn,
                       combiner_progress, text_area_combiner, messagebox,
                       callback_exception>>
            [] cb[1] = "save_thread.showerror" ->
                 /\ ShowError("Error", save_e)
                 /\ UNCHANGED <<generate_brute_force_button,
                       save_brute_force_button, brute_force_progress,
                       text_area_brute_force, generate_combiner_btn,
                       combiner_progress, text_area_combiner, status>>
            [] cb[1] = "save_brute_force_button.config" ->
                 /\ save_brute_force_button' = "normal"
                 /\ UNCHANGED <<generate_brute_force_button,
                       brute_force_progress, text_area_brute_force,
                       generate_combiner_btn, combiner_progress,
                       text_area_combiner, status, messagebox,
                       callback_exception>>
            \* lines 1054-1057
            [] cb[1] = "combiner_progress.config" ->
                 /\ combiner_progress' = GtProgress
                 /\ UNCHANGED <<generate_brute_force_button,
                       save_brute_force_button, brute_force_progress,
                       text_area_brute_force, generate_combiner_btn,
                       text_area_combiner, status, messagebox,
                       callback_exception>>
            [] cb[1] = "update_status" ->
                 /\ status' = <<"Processed", processed, "of", total_pairs,
                                "pairs">>
                 /\ UNCHANGED <<generate_brute_force_button,
                       save_brute_force_button, brute_force_progress,
                       text_area_brute_force, generate_combiner_btn,
                       combiner_progress, text_area_combiner, messagebox,
                       callback_exception>>
            \* lines 1073-1089; no list followed is longer than the limit
            [] cb[1] = "display_combined_results" ->
                 /\ text_area_combiner' =
                       SubSeq(final_list, 1,
                              IF Len(final_list) > CombinerDisplayLimit
                              THEN CombinerDisplayLimit ELSE Len(final_list))
                 /\ generate_combiner_btn' = "normal"
                 /\ combiner_progress' = 0
                 /\ status' = <<"Generated", Len(final_list), "combined words">>
                 /\ UNCHANGED <<generate_brute_force_button,
                       save_brute_force_button, brute_force_progress,
                       text_area_brute_force, messagebox, callback_exception>>
            [] cb[1] = "generation_thread.showerror" ->
                 /\ ShowError("Generation Error", gt_e)
                 /\ UNCHANGED <<generate_brute_force_button,
                       save_brute_force_button, brute_force_progress,
                       text_area_brute_force, generate_combiner_btn,
                       combiner_progress, text_area_combiner, status>>
            \* lines 1091-1094
            [] cb[1] = "reset_combiner_ui" ->
                 /\ generate_combiner_btn' = "normal"
                 /\ combiner_progress' = 0
                 /\ UNCHANGED <<generate_brute_force_button,
                       save_brute_force_button, brute_force_progress,
                       text_area_brute_force, text_area_combiner, status,
                       messagebox, callback_exception>>
    /\ UNCHANGED <<length_entry, brute_force_vars, gen_pc, gen_e, save_pc,
                   save_charset, save_length, save_total, save_i,
                   save_progress, save_e, file, gt_e>>
    /\ UNCHANGED <<options, gt_pc, total_pairs, gt_pairs, processed,
                   unique_combinations, final_list>>
    /\ UNCHANGED <<bfVars, engineVars, rulesTabVars, combinerInputVars,
                   loadSaveVars>>

\* The texts typed in the length entry: nothing, a word, and the lengths
\* -1, 0, 1 and 11.
LengthTexts ==
    {<<>>, <<"x">>, <<"-", "1">>, <<"0">>, <<"1">>, <<" ", "1">>, <<"1", "1">>}
\* The boxes ticked in the brute-force tab
TickSets == {{}, {"numbers"}, {"lowercase", "numbers"}}
\* The file names the save dialog returns: none (cancelled) and one
Filenames == {"", "out.txt"}

\* __init__: lines 366-406, with the length typed and the boxes ticked
InitBruteForceTab ==
    /\ length_entry \in LengthTexts
    /\ brute_force_vars \in TickSets
    /\ generate_brute_force_button = "normal"
    /\ save_brute_force_button = "normal"
    /\ brute_force_progress = 0
    /\ text_area_brute_force = <<>>
    /\ gen_pc = "idle"
    /\ gen_e = <<>>
    /\ save_pc = "idle"
    /\ save_charset = <<>>
    /\ save_length = 0
    /\ save_total = 0
    /\ save_i = 0
    /\ save_progress = 0
    /\ save_e = <<>>
    /\ file = <<>>

\* __init__: "4" in the length entry and no box ticked
BruteForceTabUnused ==
    /\ length_entry = <<"4">>
    /\ brute_force_vars = {}
    /\ generate_brute_force_button = "normal"
    /\ save_brute_force_button = "normal"
    /\ brute_force_progress = 0
    /\ text_area_brute_force = <<>>
    /\ gen_pc = "idle"
    /\ gen_e = <<>>
    /\ save_pc = "idle"
    /\ save_charset = <<>>
    /\ save_length = 0
    /\ save_total = 0
    /\ save_i = 0
    /\ save_progress = 0
    /\ save_e = <<>>
    /\ file = <<>>

\* No dialog shown, nothing in the combiner tab's text area
InitDialogs ==
    /\ gt_e = <<>>
    /\ text_area_combiner = <<>>
    /\ messagebox = <<>>
    /\ callback_exception = <<>>

GuiUnused == BruteForceTabUnused /\ InitDialogs

\* The lists and boxes of the combiner tab when a job is followed together
\* with the main loop
JobLists1 == {<< <<"a">> >>, << <<"a">>, <<"b">> >>}
JobLists2 == {<< <<"x">> >>, << <<"x">>, <<"y">> >>}
JobOptions == {{}, {"case_variations"}, {"leet_speak", "append_numbers"}}

InitCombinerJob ==
    /\ combiner_wordlist1 \in JobLists1 \cup {<<>>}
    /\ combiner_wordlist2 \in JobLists2
    /\ combiner_vars \in JobOptions
    /\ combiner_size_label =
          CombinerEstimate(Len(combiner_wordlist1), Len(combiner_wordlist2), {})

-----------------------------------------------------------------------------
(* WordlistFileManager.save_wordlist and load_wordlist.  A file is the      *)
(* sequence of its characters.                                              *)

\* file.write(s) of a file opened in text mode with newline=None: every
\* "\n" is written as os.linesep
RECURSIVE WriteText(_, _)
WriteText(s, linesep) ==
    IF s = <<>> THEN <<>>
    ELSE (IF Head(s) = "\n" THEN linesep ELSE <<Head(s)>>)
         \o WriteText(Tail(s), linesep)

\* Lines 105-106: file.write(word + '\n') for every word
RECURSIVE FileTextUnterminated(_, _)
FileTextUnterminated(wordlist, linesep) ==
    IF wordlist = <<>> THEN <<>>
    ELSE WriteText(Head(wordlist), linesep)
         \o FileTextUnterminated(Tail(wordlist), linesep)
RECURSIVE FileText(_, _)
FileText(wordlist, linesep) ==
    IF wordlist = <<>> THEN <<>>
    ELSE WriteText(Append(Head(wordlist), "\n"), linesep)
         \o FileText(Tail(wordlist), linesep)

\* Line 96, `for line in file` of a file opened in text mode with
\* newline=None: a line ends at "\n", at "\r" or at "\r\n", each read as
\* "\n"; the characters after the last line end are a line too
RECURSIVE ReadLinesInto(_, _, _)
ReadLinesInto(done, piece, text) ==
    IF text = <<>> THEN (IF piece = <<>> THEN done ELSE Append(done, piece))
    ELSE IF Head(text) = "\r" /\ Len(text) >= 2 /\ text[2] = "\n"
         THEN ReadLinesInto(Append(done, Append(piece, "\n")), <<>>,
                            Tail(Tail(text)))
    ELSE IF Head(text) \in {"\r", "\n"}
         THEN ReadLinesInto(Append(done, Append(piece, "\n")), <<>>, Tail(text))
    ELSE ReadLinesInto(done, Append(piece, Head(text)), Tail(text))

ReadLines(text) == ReadLinesInto(<<>>, <<>>, text)

\* Line 96: [line.strip() for line in file if line.strip()]
LoadedWords(text) == StrippedNonEmpty(ReadLines(text))

\* save_wordlist(filename, wordlist) returns: lines 103-108
CallSaveWordlist ==
    /\ fm_pc = "idle"
    /\ fm_file' = FileText(fm_wordlist, fm_linesep)
    /\ fm_pc' = "saved"
    /\ UNCHANGED <<fm_wordlist, fm_linesep, fm_loaded>>
    /\ UNCHANGED <<text_area_load_save, word_count_label>>
    /\ UNCHANGED <<bfVars, engineVars, rulesTabVars, combinerInputVars,
                   threadVars, guiVars>>

\* save_wordlist raises: lines 104, 109-110 (the file cannot be opened)
CallSaveWordlistRaises ==
    /\ fm_pc = "idle"
    /\ fm_pc' = "raised"
    /\ UNCHANGED <<fm_wordlist, fm_linesep, fm_file, fm_loaded>>
    /\ UNCHANGED <<text_area_load_save, word_count_label>>
    /\ UNCHANGED <<bfVars, engineVars, rulesTabVars, combinerInputVars,
                   threadVars, guiVars>>

\* load_wordlist(filename) of the file written returns: lines 94-96
CallLoadWordlist ==
    /\ fm_pc = "saved"
    /\ fm_loaded' = LoadedWords(fm_file)
    /\ fm_pc' = "loaded"
    /\ UNCHANGED <<fm_wordlist, fm_linesep, fm_file>>
    /\ UNCHANGED <<text_area_load_save, word_count_label>>
    /\ UNCHANGED <<bfVars, engineVars, rulesTabVars, combinerInputVars,
                   threadVars, guiVars>>

\* load_wordlist raises: lines 95, 97-98 (the file cannot be opened)
CallLoadWordlistRaises ==
    /\ fm_pc = "saved"
    /\ fm_pc' = "raised"
    /\ UNCHANGED <<fm_wordlist, fm_linesep, fm_file, fm_loaded>>
    /\ UNCHANGED <<text_area_load_save, word_count_label>>
    /\ UNCHANGED <<bfVars, engineVars, rulesTabVars, combinerInputVars,
                   threadVars, guiVars>>

\* The words saved: empty, blank, with blanks around and inside, and with
\* line ends inside and at the end
SavedWords ==
    {<<>>, <<"a">>, <<"b">>, <<" ">>, <<"\t">>, <<" ", "a">>, <<"a", " ">>,
     <<"a", " ", "b">>, <<"a", "\r">>, <<"\r">>, <<"a", "\r", "b">>,
     <<"a", "\n", "b">>}

\* os.linesep: "\n" or "\r\n"
LineSeps == {<<"\n">>, <<"\r", "\n">>}

InitFileManagerArgs ==
    /\ fm_wordlist \in ListsUpTo(SavedWords, MaxSavedWords)
    /\ fm_linesep \in LineSeps
    /\ fm_file = <<>>
    /\ fm_pc = "idle"
    /\ fm_loaded = <<>>

FileManagerUnused ==
    /\ fm_wordlist = <<>>
    /\ fm_linesep = <<"\n">>
    /\ fm_file = <<>>
    /\ fm_pc = "idle"
    /\ fm_loaded = <<>>

-----------------------------------------------------------------------------
(* The load/save tab: remove_duplicates.                                    *)

\* text_area.get(1.0, END).splitlines(): an empty text area gives one empty
\* line
GetLines(content) == IF content = <<>> THEN << <<>> >> ELSE content

\* Lines 1311-1316: the loop over words, seen being the words kept so far
RECURSIVE UniqueWordsInto(_, _)
UniqueWordsInto(unique_words, words) ==
    IF words = <<>> THEN unique_words
    ELSE UniqueWordsInto(IF Strip(Head(words)) # <<>>
                            /\ ~Contains(unique_words, Head(words))
                         THEN Append(unique_words, Head(words))
                         ELSE unique_words,
                         Tail(words))

UniqueWordsStripped(words) ==
    [k \in DOMAIN UniqueWordsInto(<<>>, words) |->
        Strip(UniqueWordsInto(<<>>, words)[k])]
UniqueWords(words) == UniqueWordsInto(<<>>, words)

\* Line 1134: len([w for w in text.split() if w.strip()])
RECURSIVE WordCount(_)
WordCount(content) ==
    IF content = <<>> THEN 0
    ELSE Len(StrippedNonEmpty(Split(Head(content), " "))) + WordCount(Tail(content))

\* The "Remove Duplicates" button: lines 1305-1321
RemoveDuplicates ==
    /\ text_area_load_save' = UniqueWords(GetLines(text_area_load_save))
    /\ word_count_label' = WordCount(text_area_load_save')
    /\ status' = <<"Removed duplicates. Now",
                   Len(UniqueWords(GetLines(text_area_load_save))),
                   "unique words.">>
    /\ UNCHANGED <<options, gt_pc, total_pairs, gt_pairs, processed,
                   unique_combinations, final_list, generate_combiner_btn,
                   combiner_progress, after_queue>>
    /\ UNCHANGED <<bfVars, engineVars, rulesTabVars, combinerInputVars, guiVars,
                   fileManagerVars>>

\* The lines typed in the load/save tab's text area
LoadSaveLines == {<<"a">>, <<"b">>, <<" ", "a">>, <<"a", " ">>, <<" ">>, <<>>}

\* __init__ and the lines typed: the KeyRelease binding keeps the count
InitLoadSaveTab ==
    /\ text_area_load_save \in ListsUpTo(LoadSaveLines, MaxLines)
    /\ word_count_label = WordCount(text_area_load_save)
    /\ FileManagerUnused

\* __init__: lines 353-362
LoadSaveUnused ==
    /\ text_area_load_save = <<>>
    /\ word_count_label = 0
    /\ FileManagerUnused

\* the load/save tab untouched, save_wordlist about to be called
InitFileManager ==
    /\ text_area_load_save = <<>>
    /\ word_count_label = 0
    /\ InitFileManagerArgs

-----------------------------------------------------------------------------
(* Specifications.                                                         *)

\* generate_brute_force called with every argument followed
InitBruteForce ==
    InitBruteForceArgs /\ EngineUnused /\ RulesTabUnused /\ InitCombinerTab
    /\ InitThread /\ GuiUnused /\ LoadSaveUnused

NextBruteForce == BfEnter \/ BfIterate \/ BfReturn

SpecBruteForce == InitBruteForce /\ [][NextBruteForce]_vars

\* apply_leet_speak and apply_rules_to_word called with every argument followed
InitEngine ==
    BruteForceUnused /\ InitEngineArgs /\ RulesTabUnused /\ InitCombinerTab
    /\ InitThread /\ GuiUnused /\ LoadSaveUnused

NextEngine == CallApplyLeetSpeak \/ CallApplyRulesToWord

SpecEngine == InitEngine /\ [][NextEngine]_vars

\* apply_leet_speak called with every word followed
InitLeet ==
    BruteForceUnused /\ InitLeetArgs /\ RulesTabUnused /\ InitCombinerTab
    /\ InitThread /\ GuiUnused /\ LoadSaveUnused

NextLeet == CallApplyLeetSpeak

SpecLeet == InitLeet /\ [][NextLeet]_vars

\* apply_rules_to_word called with every word and flag set followed
InitShape ==
    BruteForceUnused /\ InitShapeArgs /\ RulesTabUnused /\ InitCombinerTab
    /\ InitThread /\ GuiUnused /\ LoadSaveUnused

NextShape == CallApplyRulesToWord

SpecShape == InitShape /\ [][NextShape]_vars

\* the rule tab: a text typed, boxes ticked, "Apply Rules" clicked
InitRules ==
    BruteForceUnused /\ EngineUnused /\ InitRulesTab /\ InitCombinerTab
    /\ InitThread /\ GuiUnused /\ LoadSaveUnused

NextRules == ApplyRules

SpecRules == InitRules /\ [][NextRules]_vars

\* the combiner tab: lists loaded and boxes ticked in any order
InitEstimate ==
    BruteForceUnused /\ EngineUnused /\ RulesTabUnused /\ InitCombinerTab
    /\ InitThread /\ GuiUnused /\ LoadSaveUnused

NextEstimate ==
    \/ \E n \in {1, 2} : \E ws \in ListsUpTo(EstimateWords, MaxLoadLen) :
          LoadCombinerWordlist(n, ws)
    \/ \E name \in RuleNames : ToggleCombinerVar(name)

SpecEstimate == InitEstimate /\ [][NextEstimate]_vars

\* the combiner tab: "Combine Wordlists" clicked with two lists loaded
InitCombiner ==
    BruteForceUnused /\ EngineUnused /\ RulesTabUnused /\ InitCombinerLoaded
    /\ InitThread /\ GuiUnused /\ LoadSaveUnused

NextCombiner ==
    \/ GenerateCombinedWordlist
    \/ GtTotal \/ GtProduct \/ GtPair \/ GtFinish \/ GtFinally

SpecCombiner == InitCombiner /\ [][NextCombiner]_vars

\* the brute-force tab or the combiner tab used, with the main loop running
\* the posted callbacks
InitGui ==
    \/ /\ BruteForceUnused /\ EngineUnused /\ RulesTabUnused /\ InitCombinerTab
       /\ InitThread /\ InitBruteForceTab /\ InitDialogs /\ LoadSaveUnused
    \/ /\ BruteForceUnused /\ EngineUnused /\ RulesTabUnused /\ InitCombinerJob
       /\ InitThread /\ BruteForceTabUnused /\ InitDialogs /\ LoadSaveUnused

NextGui ==
    \/ GenerateBruteForce
    \/ GenEnter \/ GenIterate \/ GenReturn \/ GenResult \/ GenExcept \/ GenFinally
    \/ \E confirm \in BOOLEAN : \E filename \in Filenames :
          SaveBruteForceToFile(confirm, filename)
    \/ SaveOpen \/ SaveOpenFails \/ SaveProductRaises \/ SaveWrite
    \/ SaveWriteFails \/ SaveClose \/ SaveCloseFails \/ SaveFinally
    \/ GenerateCombinedWordlist
    \/ GtTotal \/ GtProduct \/ GtPair \/ GtFinish \/ GtExcept \/ GtFinally
    \/ ProcessAfter

SpecGui == InitGui /\ [][NextGui]_vars

\* the load/save tab: lines typed, "Remove Duplicates" clicked
InitDedup ==
    BruteForceUnused /\ EngineUnused /\ RulesTabUnused /\ InitCombinerTab
    /\ InitThread /\ GuiUnused /\ InitLoadSaveTab

NextDedup == RemoveDuplicates

SpecDedup == InitDedup /\ [][NextDedup]_vars

\* save_wordlist called with a list, then load_wordlist with the file written
InitFile ==
    BruteForceUnused /\ EngineUnused /\ RulesTabUnused /\ InitCombinerTab
    /\ InitThread /\ GuiUnused /\ InitFileManager

NextFile ==
    \/ CallSaveWordlist \/ CallSaveWordlistRaises
    \/ CallLoadWordlist \/ CallLoadWordlistRaises

SpecFile == InitFile /\ [][NextFile]_vars

\* generate_brute_force called directly, or the brute-force tab or the
\* combiner tab used: every loop that reports progress
InitProgress == InitBruteForce \/ InitGui

\* The window as __init__ left it: nothing typed, ticked or loaded
WindowUntouched ==
    /\ length_entry = <<"4">>
    /\ brute_force_vars = {}
    /\ combiner_wordlist1 = <<>>
    /\ combiner_wordlist2 = <<>>

NextProgress ==
    \/ (WindowUntouched /\ NextBruteForce)
    \/ (~WindowUntouched /\ NextGui)

SpecProgress == InitProgress /\ [][NextProgress]_vars

\* the combiner tab: a job started, and lists loaded while it runs
InitJob ==
    BruteForceUnused /\ EngineUnused /\ RulesTabUnused /\ InitCombinerJob
    /\ InitThread /\ GuiUnused /\ LoadSaveUnused

NextJob ==
    \/ \E ws \in JobLists1 : LoadCombinerWordlist(1, ws)
    \/ \E ws \in JobLists2 : LoadCombinerWordlist(2, ws)
    \/ GenerateCombinedWordlist
    \/ GtTotal \/ GtProduct \/ GtPair \/ GtFinish \/ GtFinally
    \/ ProcessAfter

SpecJob == InitJob /\ [][NextJob]_vars

Init == InitCombiner
Next == NextCombiner
Spec == SpecCombiner

-----------------------------------------------------------------------------
(* Properties of generate_brute_force, under SpecBruteForce.               *)

NoDuplicate(s) == \A i, j \in 1..Len(s) : i # j => s[i] # s[j]

\* The lowest position of character c in the alphabet
CharRank(alphabet, c) ==
    CHOOSE k \in 1..Len(alphabet) :
        alphabet[k] = c /\ \A m \in 1..(k - 1) : alphabet[m] # c

\* u comes before v in the lexicographic order the alphabet's order induces
LexLess(alphabet, u, v) ==
    \E k \in 1..Len(u) :
        /\ k <= Len(v)
        /\ \A m \in 1..(k - 1) : u[m] = v[m]
        /\ CharRank(alphabet, u[k]) < CharRank(alphabet, v[k])

\* C1: when generate_brute_force returns for a non-empty alphabet, the list
\* it returns has |alphabet|^length words, pairwise distinct, each `length`
\* characters of the alphabet long, in strictly increasing lexicographic
\* order (the cartesian-product order, rightmost position varying fastest);
\* for the digits and length 2 it starts 00, 01 and has 10 in 11th place.
C1_BruteForceProduct ==
    (bf_pc = "returned" /\ Charset(character_sets) # <<>>) =>
        LET alphabet == Charset(character_sets) IN
        /\ Len(bf_wordlist) = Pow(Len(alphabet), length)
        /\ NoDuplicate(bf_wordlist)
        /\ \A k \in 1..Len(bf_wordlist) :
              /\ Len(bf_wordlist[k]) = length
              /\ Range(bf_wordlist[k]) \subseteq Range(alphabet)
        /\ \A k \in 1..(Len(bf_wordlist) - 1) :
              LexLess(alphabet, bf_wordlist[k], bf_wordlist[k + 1])
        /\ (character_sets = <<"numbers">> /\ length = 2) =>
              /\ bf_wordlist[1] = <<"0", "0">>
              /\ bf_wordlist[2] = <<"0", "1">>
              /\ bf_wordlist[11] = <<"1", "0">>
              /\ bf_wordlist[100] = <<"9", "9">>

\* The enumeration of the 100 two-digit words returned.
C1_Witness ==
    /\ bf_pc = "returned"
    /\ character_sets = <<"numbers">>
    /\ length = 2
    /\ Len(bf_wordlist) = 100

\* C7: generate_brute_force raises exactly when |alphabet|^length exceeds
\* 1,000,000, and it raises before anything is produced: no word is in the
\* list, the progress callback was never invoked; with a total of at most
\* 1,000,000 it never raises, with a larger one it never enters the loop.
C7_CapacityFailsFast ==
    LET total == Pow(Len(Charset(character_sets)), length) IN
    /\ bf_pc = "raised" =>
          /\ total > 1000000
          /\ bf_wordlist = <<>>
          /\ bf_callbacks = <<>>
          /\ bf_i = 0
    /\ total <= 1000000 => bf_pc # "raised"
    /\ (total > 1000000 /\ Charset(character_sets) # <<>>) =>
          /\ bf_pc \in {"call", "raised"}
          /\ bf_wordlist = <<>>
          /\ bf_callbacks = <<>>

\* 26^5 = 11,881,376 words were asked for and the call raised.
C7_Witness ==
    /\ bf_pc = "raised"
    /\ character_sets = <<"uppercase">>
    /\ length = 5
    /\ bf_wordlist = <<>>

-----------------------------------------------------------------------------
(* Properties of the rule engine, under SpecEngine.                        *)

\* The documented table: e->3, a->4, i->1, o->0, s->5, t->7, l->1
TableChar(c) ==
    CASE c = "e" -> "3" [] c = "a" -> "4" [] c = "i" -> "1" [] c = "o" -> "0"
      [] c = "s" -> "5" [] c = "t" -> "7" [] c = "l" -> "1" [] OTHER -> c

\* The lower-cased word with every character looked up in the table
TableLeet(w) == [k \in 1..Len(w) |-> TableChar(LowerChar(w[k]))]

\* The lowest index at which x occurs in s
FirstIndex(s, x) ==
    CHOOSE k \in 1..Len(s) : s[k] = x /\ \A m \in 1..(k - 1) : s[m] # x

\* r is s with every element kept at its first occurrence only
\* (in the order of their first occurrences, so each before the next)
IsFirstOccurrenceDedup(r, s) ==
    /\ Cardinality(Range(r)) = Len(r)
    /\ Range(r) = Range(s)
    /\ \A i \in 1..(Len(r) - 1) : FirstIndex(s, r[i]) < FirstIndex(s, r[i + 1])

NumberSuffixes == << <<"1">>, <<"2">>, <<"3">>, <<"1","2","3">>,
                     <<"2","0","2","3">>, <<"2","0","2","4">> >>
SpecialSuffixes == << <<"!">>, <<"@">>, <<"#">>, <<"$">>, <<"!","@","#">> >>

\* The variants of step 1-3: word, leet(word), upper, lower, capitalized
StatedVariants(w, fl) ==
    <<w>>
    \o (IF "leet_speak" \in fl THEN <<TableLeet(w)>> ELSE <<>>)
    \o (IF "case_variations" \in fl
           THEN <<Upper(w), Lower(w), Capitalize(w)>> ELSE <<>>)

\* What step 4 emits for one variant
StatedEmissionOf(v, fl) ==
    <<v>>
    \o (IF "append_numbers" \in fl
           THEN [j \in 1..6 |-> v \o NumberSuffixes[j]] ELSE <<>>)
    \o (IF "prepend_numbers" \in fl
           THEN [j \in 1..6 |-> NumberSuffixes[j] \o v] ELSE <<>>)
    \o (IF "append_special_characters" \in fl
           THEN [j \in 1..5 |-> v \o SpecialSuffixes[j]] ELSE <<>>)
    \o (IF "prepend_special_characters" \in fl
           THEN [j \in 1..5 |-> SpecialSuffixes[j] \o v] ELSE <<>>)

RECURSIVE StatedEmissionFrom(_, _, _)
StatedEmissionFrom(variants, k, fl) ==
    IF k > Len(variants) THEN <<>>
    ELSE StatedEmissionOf(variants[k], fl) \o StatedEmissionFrom(variants, k + 1, fl)

StatedEmission(w, fl) == StatedEmissionFrom(StatedVariants(w, fl), 1, fl)

\* C2: apply_rules_to_word returns the emission sequence (word, leet, upper,
\* lower, capitalized; each followed by its number-suffixed, number-prefixed,
\* special-suffixed and special-prefixed forms in table order) with every
\* string kept at its first occurrence only; for "hi" with append_numbers
\* alone it returns hi, hi1, hi2, hi3, hi123, hi2023, hi2024.
C2_ApplyRulesEmission ==
    "apply_rules_to_word" \in engine_returned =>
        /\ LET emission == StatedEmission(word, rules)
           IN IsFirstOccurrenceDedup(rules_result, emission)
        /\ (word = <<"h", "i">> /\ rules = {"append_numbers"}) =>
              rules_result = << <<"h","i">>, <<"h","i","1">>, <<"h","i","2">>,
                                <<"h","i","3">>, <<"h","i","1","2","3">>,
                                <<"h","i","2","0","2","3">>,
                                <<"h","i","2","0","2","4">> >>

\* Both leet_speak and case_variations were on, with an affix rule, and the
\* result is shorter than the emission: a repeated string was dropped.
C2_Witness ==
    /\ "apply_rules_to_word" \in engine_returned
    /\ {"leet_speak", "case_variations", "append_numbers"} \subseteq rules
    /\ word = <<"H", "i">>
    /\ Len(rules_result) < Len(StatedEmission(word, rules))
    /\ Len(rules_result) > 7

\* C3: apply_leet_speak returns a word as long as its argument whose every
\* character is the table's replacement of the lower-cased character of the
\* argument at that place (e, a, i, o, s, t, l become 3, 4, 1, 0, 5, 7, 1,
\* any other character is only lower-cased); leet("pass") is "p455".
C3_LeetTable ==
    "apply_leet_speak" \in engine_returned =>
        /\ Len(leet_result) = Len(word)
        /\ \A k \in 1..Len(word) : leet_result[k] = TableChar(LowerChar(word[k]))
        /\ word = <<"p", "a", "s", "s">> => leet_result = <<"p", "4", "5", "5">>

\* leet("pass") returned "p455".
C3_Witness ==
    /\ "apply_leet_speak" \in engine_returned
    /\ word = <<"p", "a", "s", "s">>
    /\ leet_result = <<"p", "4", "5", "5">>

-----------------------------------------------------------------------------
(* Properties of the rule tab's apply_rules, under SpecRules.              *)

\* C4: the lines a rule-application job shows never contain a string twice
\* (a variant that two typed words share appears once, at its first place).
C4_JobOutputHasNoDuplicate ==
    rules_status = "generated" => NoDuplicate(text_area_rules)

-----------------------------------------------------------------------------
(* Properties of the pairwise combiner, under SpecCombiner.                *)

\* The place of the pair (list1[i], list2[j]) when list1's word is outermost
PairRank(i, j) == (i - 1) * Len(combiner_wordlist2) + j

\* The places of the pairs whose concatenation is x
RanksOf(x) ==
    {PairRank(i, j) : <<i, j>> \in
        {p \in (1..Len(combiner_wordlist1)) \X (1..Len(combiner_wordlist2)) :
            combiner_wordlist1[p[1]] \o combiner_wordlist2[p[2]] = x}}

Least(S) == CHOOSE m \in S : \A n \in S : m <= n

\* C5: with no box ticked the combiner's result holds exactly the
\* concatenations a+b of the pairs of list 1 and list 2, none twice, ordered
\* by their first pair with list 1's word outermost; for the lists a, b and
\* x, y it is ax, ay, bx, by.
C5_PlainPairwiseProduct ==
    (gt_pc = "done" /\ options = {}) =>
        /\ Range(final_list) =
              {combiner_wordlist1[i] \o combiner_wordlist2[j] :
                  i \in 1..Len(combiner_wordlist1), j \in 1..Len(combiner_wordlist2)}
        /\ Cardinality(Range(final_list)) = Len(final_list)
        /\ \A k \in 1..(Len(final_list) - 1) :
              Least(RanksOf(final_list[k])) < Least(RanksOf(final_list[k + 1]))
        /\ (combiner_wordlist1 = << <<"a">>, <<"b">> >>
              /\ combiner_wordlist2 = << <<"x">>, <<"y">> >>) =>
                final_list = << <<"a","x">>, <<"a","y">>, <<"b","x">>, <<"b","y">> >>

\* The lists a, b and x, y were combined with no box ticked.
C5_Witness ==
    /\ gt_pc = "done"
    /\ options = {}
    /\ combiner_wordlist1 = << <<"a">>, <<"b">> >>
    /\ combiner_wordlist2 = << <<"x">>, <<"y">> >>
    /\ Len(final_list) = 4

\* What the k-th pair of the job emits
EmissionOfPair(k) ==
    LET pairs == ProductPairs(combiner_wordlist1, combiner_wordlist2)
    IN PairVariants(pairs[k][1], pairs[k][2], options)

RECURSIVE EmissionUpTo(_)
EmissionUpTo(k) == IF k = 0 THEN <<>> ELSE EmissionUpTo(k - 1) \o EmissionOfPair(k)

\* C6: in the combiner thread the strings kept so far are, at every moment,
\* the strings emitted by the pairs processed so far, each once, in the order
\* of their first emission over the whole job; so is the final list.
C6_GlobalDeduplication ==
    /\ gt_pc = "loop" =>
          LET emitted == EmissionUpTo(processed)
          IN IsFirstOccurrenceDedup(unique_combinations, emitted)
    /\ gt_pc = "done" =>
          LET emitted == EmissionUpTo(Len(combiner_wordlist1) * Len(combiner_wordlist2))
          IN IsFirstOccurrenceDedup(final_list, emitted)

\* The job is over and a later pair emitted a string that an earlier pair
\* had emitted.
C6_Witness ==
    /\ gt_pc = "done"
    /\ \E k1, k2 \in 1..total_pairs :
          /\ k1 < k2
          /\ Range(EmissionOfPair(k1)) \cap Range(EmissionOfPair(k2)) # {}
          /\ ~(Range(EmissionOfPair(k2)) \subseteq Range(EmissionOfPair(k1)))

\* C8: the number of words the combiner produces is at most |A| * |B| times
\* the product of the multipliers of the ticked rules (case_variations 3,
\* leet_speak 2, the number rules 7, the special-character rules 6).
C8_EstimateIsUpperBound ==
    gt_pc = "done" =>
        Len(final_list) <=
            Len(combiner_wordlist1) * Len(combiner_wordlist2)
            * (IF "case_variations" \in options THEN 3 ELSE 1)
            * (IF "leet_speak" \in options THEN 2 ELSE 1)
            * (IF "append_numbers" \in options THEN 7 ELSE 1)
            * (IF "prepend_numbers" \in options THEN 7 ELSE 1)
            * (IF "append_special_characters" \in options THEN 6 ELSE 1)
            * (IF "prepend_special_characters" \in options THEN 6 ELSE 1)

-----------------------------------------------------------------------------
(* Properties of the combiner's size estimate, under SpecEstimate.         *)

StatedMultiplier(rule) ==
    CASE rule = "case_variations" -> 3
      [] rule = "leet_speak" -> 2
      [] rule \in {"append_numbers", "prepend_numbers"} -> Len(NumberSuffixes) + 1
      [] rule \in {"append_special_characters", "prepend_special_characters"} ->
            Len(SpecialSuffixes) + 1

RECURSIVE ProductOfMultipliers(_)
ProductOfMultipliers(enabled) ==
    IF enabled = {} THEN 1
    ELSE LET rule == CHOOSE r \in enabled : TRUE
         IN StatedMultiplier(rule) * ProductOfMultipliers(enabled \ {rule})

StatedEstimate(a, b, enabled) ==
    IF a = 0 \/ b = 0 THEN 0 ELSE a * b * ProductOfMultipliers(enabled)

\* C9: whenever a word list is loaded, the estimate shown becomes |A| * |B|
\* times the product of the multipliers of the ticked rules (3, 2, and the
\* length of the suffix table plus one), 1 when none is ticked, and 0 when
\* either list is empty.
C9_PairwiseEstimate ==
    [][(combiner_wordlist1' # combiner_wordlist1
          \/ combiner_wordlist2' # combiner_wordlist2) =>
        combiner_size_label' =
            StatedEstimate(Len(combiner_wordlist1'), Len(combiner_wordlist2'),
                           combiner_vars')]_vars

\* Lists of 2 and 3 words are loaded, every box is ticked, and the estimate
\* shown is 6 * (3 * 2 * 7 * 7 * 6 * 6).
C9_Witness ==
    /\ Len(combiner_wordlist1) = 2
    /\ Len(combiner_wordlist2) = 3
    /\ combiner_vars = RuleNames
    /\ combiner_size_label = 63504

-----------------------------------------------------------------------------
(* Properties of the brute-force tab, the combiner job and the main loop,   *)
(* under SpecGui.                                                          *)

\* The states in which a worker thread exists and has not ended
GenActive == gen_pc \in {"running", "finally", "except"}
SaveActive == save_pc \in {"open", "loop", "finally", "except"}
GtActive == gt_pc \in {"total", "product", "loop", "finally", "except"}

\* The states in which a worker has not yet reached its except or finally
\* clause
GenWorking == gen_pc = "running"
SaveWorking == save_pc \in {"open", "loop"}
GtWorking == gt_pc \in {"total", "product", "loop"}

\* C11: when the length typed is a number outside 1..10, neither button
\* starts a worker: no string is produced and no file is opened.
C11_LengthOutsideRangeRejected ==
    (IntParses(length_entry) /\ IntOf(length_entry) \notin 1..10) =>
        /\ gen_pc = "idle"
        /\ save_pc = "idle"
        /\ bf_wordlist = <<>>
        /\ file = <<>>

\* The names of the posted callbacks that deliver a result or a completion,
\* and of those that deliver an error
ResultCallbacks ==
    {"display_brute_force_results", "save_thread.update_status",
     "display_combined_results"}
ErrorCallbacks ==
    {"generate_thread.showerror", "save_thread.showerror",
     "generation_thread.showerror"}

\* The number of callbacks with a name in names that this step posts
PostedCount(names) ==
    Cardinality({k \in DOMAIN after_queue' :
                    k > Len(after_queue) /\ after_queue'[k][1] \in names})

\* C13: a running worker can be cancelled: from every state in which a
\* worker is at work, a step exists by which that worker stops working
\* without posting a result, a completion or an error (the Cancelled
\* outcome, distinct from Completed and Failed).
C13_CancellationAvailable ==
    /\ GenWorking =>
          ENABLED (NextGui /\ gen_pc' # "running"
                   /\ PostedCount(ResultCallbacks \cup ErrorCallbacks) = 0)
    /\ SaveWorking =>
          ENABLED (NextGui /\ save_pc' \notin {"open", "loop"}
                   /\ PostedCount(ResultCallbacks \cup ErrorCallbacks) = 0)
    /\ GtWorking =>
          ENABLED (NextGui /\ gt_pc' \notin {"total", "product", "loop"}
                   /\ PostedCount(ResultCallbacks \cup ErrorCallbacks) = 0)

\* C14: at most one worker of the brute-force tab is active at a time,
\* generate_thread and save_thread counted together.
C14_OneJobPerArea == ~(GenActive /\ SaveActive)

\* C15: when a write or a flush of save_thread fails, the file keeps the
\* lines written before, no line is written to it afterwards, no "Saved ..."
\* notification is posted, and the job reports the error: the error
\* notification of save_thread, when it runs, shows the error box.
C15_WriteFailureIsFatal ==
    [][/\ (save_pc = "loop" /\ save_pc' = "except") => file' = file
       /\ save_pc = "except" =>
             /\ file' = file
             /\ \A k \in DOMAIN after_queue' :
                   after_queue'[k][1] # "save_thread.update_status"
       /\ (after_queue # <<>> /\ after_queue' = Tail(after_queue)
           /\ Head(after_queue)[1] = "save_thread.showerror") =>
             /\ Len(messagebox') > 2
             /\ messagebox'[1] = "showerror"
             /\ callback_exception' = callback_exception]_vars

\* C16: every worker posts exactly one terminal notification, a result or an
\* error: none while it works, one in the step by which it stops working,
\* none afterwards, and it stops working only into its except or finally
\* clause.
C16_OneTerminalNotification ==
    [][/\ PostedCount({"display_brute_force_results",
                       "generate_thread.showerror"})
             = IF GenWorking /\ ~GenWorking' THEN 1 ELSE 0
       /\ PostedCount({"save_thread.update_status", "save_thread.showerror"})
             = IF SaveWorking /\ ~SaveWorking' THEN 1 ELSE 0
       /\ PostedCount({"display_combined_results",
                       "generation_thread.showerror"})
             = IF GtWorking /\ ~GtWorking' THEN 1 ELSE 0
       /\ (GenWorking /\ ~GenWorking') => gen_pc' \in {"finally", "except"}
       /\ (SaveWorking /\ ~SaveWorking') => save_pc' \in {"finally", "except"}
       /\ (GtWorking /\ ~GtWorking') => gt_pc' \in {"finally", "except"}
       /\ gen_pc' = "done" => gen_pc \in {"finally", "except", "done"}
       /\ save_pc' = "done" => save_pc \in {"finally", "except", "done"}
       /\ gt_pc' = "done" => gt_pc \in {"finally", "except", "done"}]_vars

\* Both workers of the brute-force tab have ended, one with an error box
\* shown, and every notification has run.
C16_Witness ==
    /\ gen_pc = "done"
    /\ save_pc = "done"
    /\ after_queue = <<>>
    /\ Len(messagebox) > 2
    /\ status[1] \in {"Saved", "Generated"}

\* C17: while the error notification of generate_thread waits in the queue,
\* the error it renders is still bound: for a capacity rejection the message
\* that will be shown holds the computed total.
C17_ErrorContextAvailable ==
    \A k \in DOMAIN after_queue :
        after_queue[k][1] = "generate_thread.showerror" => gen_e = BfError

\* A step of a worker thread: the worker exists and one of its locals changes
GenStep ==
    GenActive /\ <<bfVars, gen_pc, gen_e>>' # <<bfVars, gen_pc, gen_e>>
SaveStep ==
    SaveActive /\ <<save_pc, save_i, save_progress, save_e, file>>'
                    # <<save_pc, save_i, save_progress, save_e, file>>
GtStep ==
    GtActive /\ <<gt_pc, total_pairs, gt_pairs, processed, unique_combinations,
                  final_list, gt_e>>'
                # <<gt_pc, total_pairs, gt_pairs, processed,
                    unique_combinations, final_list, gt_e>>

\* C20: a step of a worker changes no widget and no dialog, and changes the
\* queue only by posting; every call of the progress callback posts; and a
\* step that runs posted callbacks runs exactly one, the oldest.
C20_WorkersOnlyPost ==
    [][/\ (GenStep \/ SaveStep \/ GtStep) =>
             /\ foregroundVars' = foregroundVars
             /\ Len(after_queue') >= Len(after_queue)
             /\ SubSeq(after_queue', 1, Len(after_queue)) = after_queue
       /\ bf_callbacks' # bf_callbacks /\ GenActive =>
             Len(after_queue') = Len(after_queue) + 1
       /\ Len(after_queue') < Len(after_queue) =>
             after_queue' = Tail(after_queue)
       /\ (foregroundVars' # foregroundVars
           /\ ~(GenStep \/ SaveStep \/ GtStep)) =>
             \/ after_queue # <<>> /\ after_queue' = Tail(after_queue)
             \/ after_queue' = after_queue]_vars

\* generate_thread has generated the ten one-digit words and they are shown:
\* its progress, its result and the button's reset went through the queue.
C20_Witness ==
    /\ gen_pc = "done"
    /\ Len(text_area_brute_force) = 10
    /\ generate_brute_force_button = "normal"
    /\ after_queue = <<>>

-----------------------------------------------------------------------------
(* Further properties of generate_brute_force, under SpecBruteForce.        *)

\* C12: a call of generate_brute_force with an empty selection, or with
\* names that are no character sets, does not return a result.
C12_EmptySelectionIsAnError ==
    Charset(character_sets) = <<>> => bf_pc # "returned"

\* C19: whatever the order of the names passed, the alphabet the words are
\* built from is the concatenation of the selected sets in the order
\* uppercase, lowercase, numbers, special characters.
C19_CanonicalAlphabet ==
    bf_pc \in {"loop", "returned"} =>
        \A k \in DOMAIN bf_wordlist :
            bf_wordlist[k] =
                ProductItem(Charset(TickedCharsets(Range(character_sets))),
                            length, k - 1)

-----------------------------------------------------------------------------
(* Properties of the order-preserving deduplications, under SpecDedup.      *)

\* C18: deduplicating what a deduplication returned returns it unchanged:
\* once "Remove Duplicates" has run, running it again changes no line, and
\* OrderedDict.fromkeys applied to its own result gives that result.
C18_DeduplicationIdempotent ==
    [][/\ status[1] = "Removed duplicates. Now" =>
             text_area_load_save' = text_area_load_save
       /\ OrderedDictFromKeys(OrderedDictFromKeys(text_area_load_save))
             = OrderedDictFromKeys(text_area_load_save)
       /\ NoDuplicate(text_area_load_save')]_vars

\* "Remove Duplicates" has run on lines of which two were kept.
C18_Witness ==
    /\ status = <<"Removed duplicates. Now", 2, "unique words.">>
    /\ Len(text_area_load_save) = 2

-----------------------------------------------------------------------------
(* Properties of apply_leet_speak, under SpecLeet.                         *)

\* The replacements of LEET_MAP made in the order perm, from the k-th on
RECURSIVE LeetInOrder(_, _, _)
LeetInOrder(leet_word, perm, k) ==
    IF k > Len(LEET_MAP) THEN leet_word
    ELSE LeetInOrder(Replace(leet_word, LEET_MAP[perm[k]][1], LEET_MAP[perm[k]][2]),
                     perm, k + 1)

\* C25: no pair of LEET_MAP replaces a character that a pair writes or that
\* another pair replaces, and for every word and every order of the seven
\* pairs, the replacements made in that order on the lower-cased word give
\* what apply_leet_speak returns with the order e, a, i, o, s, t, l.
C25_LeetOrderIndependent ==
    /\ \A j, k \in 1..Len(LEET_MAP) :
          /\ LEET_MAP[j][1] # LEET_MAP[k][2]
          /\ j # k => LEET_MAP[j][1] # LEET_MAP[k][1]
    /\ "apply_leet_speak" \in engine_returned =>
          \A perm \in Permutations(1..Len(LEET_MAP)) :
              LeetInOrder(Lower(word), perm, 1) = leet_result

\* apply_leet_speak returned for a word that holds a letter replaced by 1,
\* that 1 and the other letter replaced by 1
C25_Witness ==
    /\ "apply_leet_speak" \in engine_returned
    /\ word = <<"l", "1", "i">>
    /\ leet_result = <<"1", "1", "1">>

-----------------------------------------------------------------------------
(* Properties of the variants of one pair, under SpecCombiner.             *)

\* base, then upper, lower and capitalized base when case_variations is set
StatedCased(base, fl) ==
    <<base>> \o (IF "case_variations" \in fl
                 THEN <<Upper(base), Lower(base), Capitalize(base)>> ELSE <<>>)

\* The list with the leet forms of its elements added: the leet forms are
\* taken in the order of the elements, and one is added when neither the
\* list nor the forms added before hold it
StatedLeetStep(list) ==
    list \o SelectSeq(OrderedDictFromKeys([k \in 1..Len(list) |->
                                             TableLeet(list[k])]),
                      LAMBDA x : ~Contains(list, x))

\* The variant list of one pair, then the affix step of the rule engine on
\* every variant in order
StatedPairVariants(w1, w2, fl) ==
    LET accumulated == IF "leet_speak" \in fl
                       THEN StatedLeetStep(StatedCased(w1 \o w2, fl))
                       ELSE StatedCased(w1 \o w2, fl)
    IN Flatten([k \in 1..Len(accumulated) |-> StatedEmissionOf(accumulated[k], fl)])

\* C24: for each pair the combiner builds base, then upper, lower and
\* capitalized base (case_variations), then the leet form of every variant
\* accumulated so far, in order, each added only when the list does not
\* hold it yet (leet_speak), and applies the rule engine's affix step to
\* every accumulated variant in that order; these strings are what the
\* pass adds to the strings kept.
C24_PairVariantList ==
    [][(gt_pc = "loop" /\ processed' = processed + 1) =>
          /\ PairVariants(Head(gt_pairs)[1], Head(gt_pairs)[2], options)
                = StatedPairVariants(Head(gt_pairs)[1], Head(gt_pairs)[2], options)
          /\ unique_combinations' =
                FromKeysInto(unique_combinations,
                             StatedPairVariants(Head(gt_pairs)[1],
                                                Head(gt_pairs)[2], options))]_vars

\* The pair (dotless i, x) with case_variations and leet_speak: the leet
\* form of the base is the base and is not added, the leet form of the
\* upper-cased base is added, the leet form of the capitalized base is not
\* added again.
C24_Witness ==
    /\ gt_pc = "done"
    /\ options = {"case_variations", "leet_speak"}
    /\ final_list = << <<DotlessI, "x">>, <<"I", "X">>, <<"I", "x">>, <<"1", "x">> >>

\* A word whose case variants have one lower case
CaseStable(w) == Lower(Upper(w)) = Lower(w) /\ Lower(Capitalize(w)) = Lower(w)

\* The strings of the pair (w1, w2) are those of apply_rules_to_word(w1 + w2),
\* and the leet step adds one variant at most
PathsAgree(w1, w2) ==
    /\ Range(PairVariants(w1, w2, options))
          = Range(ApplyRulesToWord(w1 \o w2, options))
    /\ Range(unique_combinations') =
          Range(unique_combinations) \cup Range(ApplyRulesToWord(w1 \o w2, options))
    /\ "leet_speak" \in options =>
          /\ Len(CombinerVariations(w1 \o w2, options))
                <= Len(CombinerVariations(w1 \o w2, options \ {"leet_speak"})) + 1
          /\ \A v \in Range(CombinerVariations(w1 \o w2, options \ {"leet_speak"})) :
                ApplyLeetSpeak(v) = ApplyLeetSpeak(w1 \o w2)

\* C27 as stated: for every pair and every flag set, the strings the
\* combiner emits for the pair are, as a set, the strings of
\* apply_rules_to_word(a + b, flags); the leet step adds at most one variant
\* because the leet form of every case variant is the leet form of the base.
C27_PathsAgreeAsSets ==
    [][(gt_pc = "loop" /\ processed' = processed + 1) =>
          PathsAgree(Head(gt_pairs)[1], Head(gt_pairs)[2])]_vars

\* C27 amended: the same, for every pair whose concatenation has case
\* variants with one lower case (every ASCII word has).
C27_PathsAgreeWhenCaseStable ==
    [][(gt_pc = "loop" /\ processed' = processed + 1
        /\ CaseStable(Head(gt_pairs)[1] \o Head(gt_pairs)[2])) =>
          PathsAgree(Head(gt_pairs)[1], Head(gt_pairs)[2])]_vars

\* The pair (a, B) with case_variations and leet_speak: the leet step added
\* the one string 4b.
C27_Witness ==
    /\ gt_pc = "done"
    /\ options = {"case_variations", "leet_speak"}
    /\ final_list = << <<"a", "B">>, <<"A", "B">>, <<"a", "b">>, <<"A", "b">>,
                       <<"4", "b">> >>

-----------------------------------------------------------------------------
(* Further properties of the rule engine, under SpecShape and SpecLeet.     *)

\* The base variants of a word: the word, its leet form, its upper-cased,
\* lower-cased and capitalized forms
BaseVariants(w) == {w, TableLeet(w), Upper(w), Lower(w), Capitalize(w)}

\* The affixes of the two tables
Affixes == Range(NumberSuffixes) \cup Range(SpecialSuffixes)

\* x is a string of bases with one affix after it or before it
HasOneAffix(x, bases) ==
    \E affix \in Affixes :
        /\ Len(x) >= Len(affix)
        /\ \/ /\ SubSeq(x, Len(x) - Len(affix) + 1, Len(x)) = affix
              /\ SubSeq(x, 1, Len(x) - Len(affix)) \in bases
           \/ /\ SubSeq(x, 1, Len(affix)) = affix
              /\ SubSeq(x, Len(affix) + 1, Len(x)) \in bases

\* 1 when the flag is set, else 0
Flag(name, fl) == IF name \in fl THEN 1 ELSE 0

\* (1 + leet + 3 case) (1 + 6 append_numbers + 6 prepend_numbers
\*                        + 5 append_special + 5 prepend_special)
StatedSizeBound(fl) ==
    (1 + Flag("leet_speak", fl) + 3 * Flag("case_variations", fl))
    * (1 + 6 * Flag("append_numbers", fl) + 6 * Flag("prepend_numbers", fl)
         + 5 * Flag("append_special_characters", fl)
         + 5 * Flag("prepend_special_characters", fl))

\* C28: the first element of apply_rules_to_word's result is the word; every
\* element is a base variant (word, leet, upper, lower, capitalized) or a
\* base variant with exactly one affix of one table, never two; and the
\* result has at most (1 + leet + 3 case)(1 + 6 an + 6 pn + 5 as + 5 ps)
\* elements.
C28_ResultShape ==
    "apply_rules_to_word" \in engine_returned =>
        /\ rules_result # <<>>
        /\ rules_result[1] = word
        /\ \A k \in 1..Len(rules_result) :
              \/ rules_result[k] \in BaseVariants(word)
              \/ HasOneAffix(rules_result[k], BaseVariants(word))
        /\ Len(rules_result) <= StatedSizeBound(rules)

\* apply_rules_to_word("hi") returned with every flag set: 4 variants with
\* 23 strings each, of the 5 times 23 the bound allows
C28_Witness ==
    /\ "apply_rules_to_word" \in engine_returned
    /\ word = <<"h", "i">>
    /\ rules = RuleNames
    /\ Len(rules_result) = 92

\* leet(leet(w)) = leet(w), and leet(w) holds no upper-case letter and none
\* of the letters LEET_MAP replaces
LeetIsFixed ==
    /\ ApplyLeetSpeak(leet_result) = leet_result
    /\ \A k \in 1..Len(leet_result) :
          /\ ~Contains(UpperLetters, leet_result[k])
          /\ leet_result[k] \notin {"e", "a", "i", "o", "s", "t", "l"}

\* leet(upper(w)) = leet(lower(w)) = leet(w)
LeetIgnoresCase ==
    /\ ApplyLeetSpeak(Upper(word)) = leet_result
    /\ ApplyLeetSpeak(Lower(word)) = leet_result

\* C29 as stated: for every word w, leet(leet(w)) = leet(w), leet(w) holds
\* no upper-case letter and none of e, a, i, o, s, t, l, and the case of w
\* is ignored: leet(upper(w)) = leet(lower(w)) = leet(w).
C29_LeetIdempotentCaseBlind ==
    "apply_leet_speak" \in engine_returned => (LeetIsFixed /\ LeetIgnoresCase)

\* C29 amended: the first two for every word; the case of w is ignored
\* when the case variants of w have one lower case (every ASCII word).
C29_LeetIdempotent ==
    "apply_leet_speak" \in engine_returned =>
        /\ LeetIsFixed
        /\ (CaseStable(word) => LeetIgnoresCase)

\* leet("LeEt") returned "1337", which leet leaves as it is
C29_Witness ==
    /\ "apply_leet_speak" \in engine_returned
    /\ word = <<"L", "e", "E", "t">>
    /\ leet_result = <<"1", "3", "3", "7">>

-----------------------------------------------------------------------------
(* Properties of the streaming save, under SpecGui.                        *)

\* The lines are the first words of itertools.product(charset, repeat=len),
\* in its order, each a word of len characters
IsProductPrefix(lines, charset, len) ==
    \A k \in 1..Len(lines) :
        /\ lines[k] = ProductItem(charset, len, k - 1)
        /\ Len(lines[k]) = len

\* C26: during a streaming save the lines written so far are a prefix of
\* the product-order sequence, each a complete word on a line of its own,
\* as many as the loop has made passes; the worker never fails for the
\* number of combinations; when it ends without error the file holds
\* |alphabet|^L lines and the completion shown reports that number.
C26_StreamingSavePrefix ==
    [][/\ file' # file => IsProductPrefix(file', save_charset', save_length')
       /\ save_pc' = "loop" => Len(file') = save_i'
       /\ (save_pc = "loop" /\ save_pc' = "except") =>
             save_e' \in {<<"OSError">>, <<"repeat argument cannot be negative">>}
       /\ (save_pc = "loop" /\ save_pc' = "finally") =>
             Len(file') = Power(Len(save_charset'), save_length')
       /\ (status' # status /\ status'[1] = "Saved") =>
             /\ status' = <<"Saved", Len(file), "words">>
             /\ Len(file) = Power(Len(save_charset), save_length)]_vars

\* The ten one-digit words were saved and the completion is shown
C26_Witness ==
    /\ status = <<"Saved", 10, "words">>
    /\ save_pc = "done"
    /\ file = [k \in 1..10 |-> <<Digits[k]>>]

-----------------------------------------------------------------------------
(* Properties of a combiner job with the lists loaded during it, under     *)
(* SpecJob.                                                                *)

\* C21: a running combiner job is not changed by a list loaded during it:
\* the pairs it has processed and the pairs it still has to process add up
\* to the total it computed, it has processed exactly that total when its
\* loop is over, and the report it shows reads "total of total".
C21_JobInputsExclusive ==
    /\ gt_pc = "loop" => processed + Len(gt_pairs) = total_pairs
    /\ gt_pc \in {"finally", "done"} => processed = total_pairs
    /\ status[1] = "Processed" => status[2] = status[4]

-----------------------------------------------------------------------------
(* Properties of save_wordlist and load_wordlist, under SpecFile.          *)

\* A word without a line end inside it or at its end
NewlineFree(w) == ~Contains(w, "\n") /\ ~Contains(w, "\r")

-----------------------------------------------------------------------------
(* Properties of the progress reports, under SpecProgress.                 *)

\* The least number of intervals of length every that cover n units
Ceil(n, every) == n \div every + (IF n % every = 0 THEN 0 ELSE 1)

\* The reports generation_thread has posted once it has processed p pairs
GtReportsDue(p) ==
    p \div CombinerProgressEvery
    + (IF p = total_pairs /\ p % CombinerProgressEvery # 0 THEN 1 ELSE 0)

-----------------------------------------------------------------------------
(* The trigger buttons and their workers, under SpecGui.                   *)

\* In the queue of posted callbacks the one named reset stands behind every
\* result or error callback of its job
PostedAfter(reset, notes) ==
    \A i, j \in 1..Len(after_queue) :
        (after_queue[i][1] = reset /\ after_queue[j][1] \in notes) => j < i

\* The brute-force Generate button and generate_thread
GenerateButtonHeld ==
    /\ GenActive => generate_brute_force_button = "disabled"
    /\ PostedAfter("generate_brute_force_button.config",
                   {"display_brute_force_results", "generate_thread.showerror"})

\* The brute-force Save to File button and save_thread
SaveButtonHeld ==
    /\ SaveActive => save_brute_force_button = "disabled"
    /\ PostedAfter("save_brute_force_button.config",
                   {"save_thread.update_status", "save_thread.showerror"})

\* The Combine Wordlists button and generation_thread
CombinerButtonHeld ==
    /\ GtActive => generate_combiner_btn = "disabled"
    /\ PostedAfter("reset_combiner_ui",
                   {"display_combined_results", "generation_thread.showerror"})

\* C30: once a brute-force Generate, brute-force Save to File or combiner
\* job is started, its button is not re-enabled while the job's worker is
\* still running, and the callback that re-enables it is posted after the
\* job's result or error callback.
C30_ButtonHeldWhileWorkerRuns ==
    GenerateButtonHeld /\ SaveButtonHeld /\ CombinerButtonHeld

=============================================================================
